---- MODULE Spec2Model ----
(***************************************************************************)
(* A model of NewsBot: the article store (database.py), the tiered source  *)
(* caps (scheduler.py, news_fetcher.py), the LLM-facing analysis and       *)
(* relevance selection (summarizer.py), the fetch cycle of the scheduler   *)
(* (scheduler.py) and the pending-selection map of the chat front end      *)
(* (bot.py).                                                               *)
(*                                                                         *)
(* Python values are modelled as follows.  A dict is a function whose      *)
(* DOMAIN is its key set, so a missing key and a key bound to None differ. *)
(* A str that the code only compares (url, source, intent, emotion) is a   *)
(* TLA+ string.  A str that the code searches, splits or parses (title,    *)
(* summary, full_text, an LLM reply) is a sequence of one-character        *)
(* strings.  A datetime is an integer number of seconds.                   *)
(***************************************************************************)
EXTENDS Integers, Sequences, FiniteSets, TLC

VARIABLES
    store,               \* the rows of table articles, in rowid order
    now,                 \* the wall clock, in seconds
    call,                \* the arguments of the function under study
    ret,                 \* what the last operation returned or raised
    pending_selections,  \* bot.py: selection key -> pending selection
    next_message_id,     \* the id of the next status message of a |news command
    next_sweep,          \* when the sleep of cleanup_old_selections ends
    handlers,            \* bot.py: the on_reaction_add coroutines and their frames
    last_auto_fetch,     \* NewsScheduler.last_auto_fetch
    last_manual_fetch,   \* NewsScheduler.last_manual_fetch
    apscheduler,         \* NewsScheduler.scheduler and its one job
    tasks,               \* the coroutines of the event loop and their frames
    running              \* the coroutine the event loop is executing

dbVars == <<store, now>>
botVars == <<pending_selections, next_message_id, next_sweep, handlers>>
schedVars == <<last_auto_fetch, last_manual_fetch, apscheduler, tasks, running>>
vars == <<store, now, call, ret, botVars, schedVars>>

-----------------------------------------------------------------------------
(* Python and SQL values *)

\* Python None / SQL NULL in a text or url position (no text is <<"NULL">>:
\* the elements of a text are single characters, and a url has two parts).
NULL == <<"NULL">>

\* The url of page n of a site, "https://<site>/<n>".
Url(site, n) == <<site, n>>

\* Python None in the position of a str the code only compares.
None == "<None>"

\* Python None in a datetime position.
NoTime == 0 - 1

\* dict.get(key, default)
DictGet(d, k, default) == IF k \in DOMAIN d THEN d[k] ELSE default

\* seq[:n] for n >= 0
Take(seq, n) == SubSeq(seq, 1, IF n < Len(seq) THEN n ELSE Len(seq))

Min(a, b) == IF a < b THEN a ELSE b

Range(f) == {f[i] : i \in DOMAIN f}

UpperCase == <<"A","B","C","D","E","F","G","H","I","J","K","L","M",
               "N","O","P","Q","R","S","T","U","V","W","X","Y","Z">>
LowerCase == <<"a","b","c","d","e","f","g","h","i","j","k","l","m",
               "n","o","p","q","r","s","t","u","v","w","x","y","z">>

\* The case folding of SQLite's LIKE: ASCII letters only.
AsciiLower(c) ==
    IF \E i \in DOMAIN UpperCase : UpperCase[i] = c
    THEN LowerCase[CHOOSE i \in DOMAIN UpperCase : UpperCase[i] = c]
    ELSE c

\* str.upper() on the characters the model uses.
AsciiUpper(c) ==
    IF \E i \in DOMAIN LowerCase : LowerCase[i] = c
    THEN UpperCase[CHOOSE i \in DOMAIN LowerCase : LowerCase[i] = c]
    ELSE c

-----------------------------------------------------------------------------
(* database.py: NewsDatabase *)

\* The columns an INSERT binds (database.py:46-56).
InsertColumns ==
    {"title", "url", "source", "published_at", "summary", "intent",
     "emotion", "full_text"}

\* The NULL of each column's type.
ColumnNull(col) ==
    CASE col \in {"title", "url", "summary", "full_text", "intent", "emotion"} -> NULL
      [] col = "published_at" -> NoTime
      [] OTHER -> None

\* url TEXT UNIQUE NOT NULL: would a row with this url break UNIQUE?
UniqueViolation_Unenforced(rows, url) == FALSE

UniqueViolation(rows, url) == \E i \in DOMAIN rows : rows[i].url = url

\* title TEXT NOT NULL, url TEXT UNIQUE NOT NULL
NotNullViolation(a) ==
    \/ DictGet(a, "title", NULL) = NULL
    \/ DictGet(a, "url", NULL) = NULL

\* id INTEGER PRIMARY KEY AUTOINCREMENT: one more than the largest rowid so
\* far (rows are never deleted, so that is the largest rowid ever used).
NextRowId(rows) ==
    IF rows = <<>> THEN 1
    ELSE 1 + (CHOOSE m \in {rows[i].id : i \in DOMAIN rows} :
                 \A i \in DOMAIN rows : rows[i].id <= m)

\* The row an INSERT of article_data makes: article_data.get(col) per
\* column, the next rowid, created_at DEFAULT CURRENT_TIMESTAMP.
NewRow(rows, a, t) ==
    [col \in InsertColumns \cup {"id", "created_at"} |->
        CASE col = "id" -> NextRowId(rows)
          [] col = "created_at" -> t
          [] OTHER -> DictGet(a, col, ColumnNull(col))]

\* NewsDatabase.article_exists
article_exists_Never(rows, url) == FALSE

article_exists(rows, url) ==
    Cardinality({i \in DOMAIN rows : rows[i].url = url}) > 0

\* insert_article as INSERT OR REPLACE: the row with the same url is
\* deleted and the new one is written under a new id.
InsertOutcome_Replace(rows, a, t) ==
    IF NotNullViolation(a)
    THEN [raised |-> "IntegrityError", value |-> 0, rows |-> rows]
    ELSE [raised |-> "none", value |-> NextRowId(rows),
          rows |-> Append(SelectSeq(rows, LAMBDA w : w.url # a.url),
                          NewRow(rows, a, t))]

\* NewsDatabase.insert_article: [raised, value, rows] of an insert into rows
\* at time t.
InsertOutcome(rows, a, t) ==
    IF NotNullViolation(a) \/ UniqueViolation(rows, DictGet(a, "url", NULL))
    THEN [raised |-> "IntegrityError", value |-> 0, rows |-> rows]
    ELSE [raised |-> "none", value |-> NextRowId(rows),
          rows |-> Append(rows, NewRow(rows, a, t))]

\* ORDER BY created_at DESC: every order of the rows that is descending in
\* created_at; SQL leaves the order of rows with equal keys open.
OrderByCreatedAtDesc_Ascending(rows) ==
    LET n == Len(rows)
    IN  { [i \in 1..n |-> rows[p[i]]] :
            p \in { q \in [1..n -> 1..n] :
                      /\ \A i, j \in 1..n : i # j => q[i] # q[j]
                      /\ \A i, j \in 1..n :
                            i < j => rows[q[i]].created_at <= rows[q[j]].created_at } }

OrderByCreatedAtDesc(rows) ==
    LET n == Len(rows)
    IN  { [i \in 1..n |-> rows[p[i]]] :
            p \in { q \in [1..n -> 1..n] :
                      /\ \A i, j \in 1..n : i # j => q[i] # q[j]
                      /\ \A i, j \in 1..n :
                            i < j => rows[q[i]].created_at >= rows[q[j]].created_at } }

\* text LIKE pattern, as SQLite evaluates it: % matches any run of
\* characters, _ matches any one character, every other character matches
\* itself up to ASCII case.
RECURSIVE Like(_, _)
Like(pattern, text) ==
    IF pattern = <<>> THEN text = <<>>
    ELSE IF Head(pattern) = "%"
         THEN \/ Like(Tail(pattern), text)
              \/ text # <<>> /\ Like(pattern, Tail(text))
         ELSE /\ text # <<>>
              /\ \/ Head(pattern) = "_"
                 \/ AsciiLower(Head(pattern)) = AsciiLower(Head(text))
              /\ Like(Tail(pattern), Tail(text))

\* column LIKE '%query%'; NULL LIKE x is NULL, which WHERE takes as false.
ColumnLike(value, query) ==
    /\ value # NULL
    /\ Like(<<"%">> \o query \o <<"%">>, value)

\* WHERE title LIKE ? OR summary LIKE ? OR full_text LIKE ?
SearchWhere(row, query) ==
    \/ ColumnLike(row.title, query)
    \/ ColumnLike(row.summary, query)
    \/ ColumnLike(row.full_text, query)

\* NewsDatabase.get_recent_articles: the results the query may return.
get_recent_articles(rows, limit) ==
    { Take(r, limit) : r \in OrderByCreatedAtDesc(rows) }

\* NewsDatabase.search_articles: the results the query may return.
search_articles(rows, query, limit) ==
    { Take(r, limit) :
        r \in OrderByCreatedAtDesc(SelectSeq(rows, LAMBDA w : SearchWhere(w, query))) }

-----------------------------------------------------------------------------
(* The store on its own: inserts, recency queries and the passing of time *)

\* Bounds of the store specifications.
MaxStoreClock == 2
MaxLimit == 3

T_Markets == <<"M","a","r","k","e","t","s"," ","r","a","l","l","y">>
T_Election == <<"E","l","e","c","t","i","o","n"," ","r","e","s","u","l","t","s">>
T_Poll == <<"p","o","l","l">>

StoreUrls == {Url("cnn.com", 1), Url("cnn.com", 2), Url("cnn.com", 3)}

\* A fetched article as news_fetcher.py:99-108 builds it (full_text falls
\* back to the feed summary, intent and emotion are None).
FetchedArticle(title, url, source, summary) ==
    [title |-> title, url |-> url, source |-> source, published_at |-> NoTime,
     summary |-> summary, full_text |-> summary, intent |-> NULL,
     emotion |-> NULL]

\* The article dicts handed to insert_article: fetched articles, a dict
\* with no title and a dict with no url.
ArticleInputs ==
    { FetchedArticle(T_Markets, u, "CNN", <<>>) : u \in StoreUrls }
    \cup { [url |-> u, source |-> "CNN"] : u \in StoreUrls }
    \cup { [title |-> T_Markets, source |-> "CNN"] }

NoRet == [op |-> "none"]
NoCall == [fn |-> "none"]

\* The empty dict.
EmptyDict == [k \in {} |-> NULL]

\* Bound: the |update commands users send.
MaxUpdates == 1

\* The coroutines the model follows: the scheduler's job, which is run
\* anew at each firing of the timer, and one per |update command.
NoTask == 0 - 1
JobTask == 0
UpdateTasks == 1..MaxUpdates
TaskIds == {JobTask} \cup UpdateTasks

\* The frame of a coroutine: where it is and its local variables.
Frame(pc, force) ==
    [pc |-> pc, force |-> force, articles |-> <<>>, new_articles |-> <<>>,
     selected_articles |-> <<>>, analyzed_articles |-> <<>>, i |-> 0,
     stored_count |-> 0]
IdleFrame == Frame("idle", FALSE)

\* Bound: the on_reaction_add coroutines that exist at once.
MaxHandlers == 1

HandlerIds == 1..MaxHandlers

\* The frame of an on_reaction_add coroutine: where it is suspended, the
\* selection key and emoji it was called with, the selected_articles of
\* _analyze_selected_articles, and how it has fared so far.
HandlerFrame(pc, key, emoji, selected_articles, outcome) ==
    [pc |-> pc, selection_key |-> key, emoji |-> emoji,
     selected_articles |-> selected_articles, outcome |-> outcome]
IdleHandler == HandlerFrame("idle", <<>>, "none", <<>>, "none")

\* bot.py:39 and the first sleep of cleanup_old_selections not yet begun.
BotAtStart ==
    /\ pending_selections = EmptyDict
    /\ next_message_id = 1
    /\ next_sweep = 0
    /\ handlers = [h \in HandlerIds |-> IdleHandler]

\* NewsScheduler.__init__ (scheduler.py:19-26), the event loop idle.
SchedulerAtStart ==
    /\ last_auto_fetch = NoTime
    /\ last_manual_fetch = NoTime
    /\ apscheduler = [running |-> FALSE, next_run_time |-> NoTime]
    /\ tasks = [t \in TaskIds |-> IdleFrame]
    /\ running = NoTask

\* A call of insert_article at the current time.
insert_article(a) ==
    LET out == InsertOutcome(store, a, now)
    IN  /\ store' = out.rows
        /\ ret' = [op |-> "insert_article", arg |-> a,
                   raised |-> out.raised, value |-> out.value]
        /\ UNCHANGED <<now, call, botVars, schedVars>>

\* A call of get_recent_articles.
GetRecent(limit) ==
    /\ \E r \in get_recent_articles(store, limit) :
          ret' = [op |-> "get_recent_articles", limit |-> limit,
                  raised |-> "none", value |-> r]
    /\ UNCHANGED <<dbVars, call, botVars, schedVars>>

\* CURRENT_TIMESTAMP moves on by a second.
StoreTick ==
    /\ now < MaxStoreClock
    /\ now' = now + 1
    /\ UNCHANGED <<store, call, ret, botVars, schedVars>>

StoreInit ==
    /\ store = <<>>
    /\ now = 0
    /\ call = NoCall
    /\ ret = NoRet
    /\ BotAtStart
    /\ SchedulerAtStart

StoreNext ==
    \/ \E a \in ArticleInputs : insert_article(a)
    \/ \E n \in 0..MaxLimit : GetRecent(n)
    \/ StoreTick

StoreSpec == StoreInit /\ [][StoreNext]_vars

StoredUrls == {store[i].url : i \in DOMAIN store}

\* C1: inserting an article whose url is already stored raises, returns no
\* id and leaves the table as it was; so no two rows ever share a url or an id.
C1_DuplicateInsertFails ==
    /\ [][\A a \in ArticleInputs :
            (insert_article(a) /\ DictGet(a, "url", NULL) \in StoredUrls)
                => /\ store' = store
                   /\ ret'.raised = "IntegrityError"
                   /\ ret'.value = 0]_vars
    /\ [](\A i, j \in DOMAIN store :
            i # j => store[i].url # store[j].url /\ store[i].id # store[j].id)

\* C1 witness: a second insert of a stored url has just been refused.
C1_Witness ==
    /\ ret.op = "insert_article"
    /\ ret.raised = "IntegrityError"
    /\ "title" \in DOMAIN ret.arg
    /\ "url" \in DOMAIN ret.arg
    /\ ret.arg.url \in StoredUrls
    /\ Len(store) >= 2

StrictlyIncreasingCreatedAt ==
    \A i, j \in DOMAIN store : i < j => store[i].created_at < store[j].created_at

\* The last k rows inserted, newest first.
LastInserted(k) == [i \in 1..k |-> store[Len(store) + 1 - i]]

\* C8: when the rows were inserted with strictly increasing created_at,
\* get_recent_articles(n) returns the last min(n, total) inserted rows,
\* newest first, in strictly descending created_at order.
C8_RecentOrder ==
    (ret.op = "get_recent_articles" /\ StrictlyIncreasingCreatedAt)
        => /\ ret.value = LastInserted(Min(ret.limit, Len(store)))
           /\ \A i, j \in DOMAIN ret.value :
                 i < j => ret.value[i].created_at > ret.value[j].created_at

\* C8 witness: three rows with increasing created_at, two of them returned.
C8_Witness ==
    /\ ret.op = "get_recent_articles"
    /\ StrictlyIncreasingCreatedAt
    /\ Len(store) = 3
    /\ ret.limit = 2
    /\ Len(ret.value) = 2

-----------------------------------------------------------------------------
(* Free-text search over a populated store *)

\* Bound: the number of rows of a searched store.
MaxSearchRows == 2

SearchContents ==
    { [title |-> T_Markets, summary |-> <<>>],
      [title |-> T_Election, summary |-> <<>>],
      [title |-> T_Markets, summary |-> T_Poll] }

SearchUrls == [k \in 1..(MaxSearchRows + 1) |-> Url("cnn.com", k)]

\* The store after inserting the given contents, the k-th under the k-th
\* url, at the given times.
RECURSIVE Populate(_, _)
Populate(contents, times) ==
    IF contents = <<>> THEN <<>>
    ELSE LET k == Len(contents)
             before == Populate(SubSeq(contents, 1, k - 1), SubSeq(times, 1, k - 1))
         IN  InsertOutcome(before,
                           FetchedArticle(contents[k].title, SearchUrls[k], "CNN",
                                          contents[k].summary),
                           times[k]).rows

SearchStores ==
    UNION { { Populate(c, t) :
                c \in [1..k -> SearchContents],
                t \in { u \in [1..k -> 0..1] : \A i, j \in 1..k : i < j => u[i] <= u[j] } } :
            k \in 1..MaxSearchRows }

Queries ==
    { <<"e","l","e","c","t">>, <<"E","L","E","C","T">>, <<"r","a","l","l","y">>,
      <<"p","o","l","l">>, <<"e","_","e">>, <<"%">>, <<"x","y","z">> }

\* A call of search_articles.
Search(query, limit) ==
    /\ \E r \in search_articles(store, query, limit) :
          ret' = [op |-> "search_articles", query |-> query, limit |-> limit,
                  raised |-> "none", value |-> r]
    /\ UNCHANGED <<dbVars, call, botVars, schedVars>>

SearchInit ==
    /\ store \in SearchStores
    /\ now = 1
    /\ call = NoCall
    /\ ret = NoRet
    /\ BotAtStart
    /\ SchedulerAtStart

SearchNext == \E q \in Queries, n \in 1..MaxLimit : Search(q, n)

SearchSpec == SearchInit /\ [][SearchNext]_vars

\* text contains query as a substring, whatever the case of the letters.
ContainsIgnoreCase(text, query) ==
    /\ text # NULL
    /\ \E k \in 0..(Len(text) - Len(query)) :
          \A i \in 1..Len(query) : AsciiLower(text[k + i]) = AsciiLower(query[i])

RowContains(row, query) ==
    \/ ContainsIgnoreCase(row.title, query)
    \/ ContainsIgnoreCase(row.summary, query)
    \/ ContainsIgnoreCase(row.full_text, query)

\* C9: search_articles returns only rows whose title, summary or full text
\* contains the query as a case-insensitive substring, and all of them,
\* newest first, when they are at most limit.
C9_SearchIsSubstringMatch ==
    ret.op = "search_articles"
        => /\ \A i \in DOMAIN ret.value : RowContains(ret.value[i], ret.query)
           /\ \A i, j \in DOMAIN ret.value :
                 i < j => ret.value[i].created_at >= ret.value[j].created_at
           /\ LET hits == {i \in DOMAIN store : RowContains(store[i], ret.query)}
              IN  Cardinality(hits) <= ret.limit
                     => {store[i] : i \in hits} = Range(ret.value)

-----------------------------------------------------------------------------
(* scheduler.py: NewsScheduler._select_balanced_articles_per_source *)

\* us_sources of the scheduler (scheduler.py:93-96)
scheduler_us_sources ==
    {"CNN", "Fox News", "New York Times", "Washington Post", "NBC News",
     "ABC News", "NPR", "Reuters"}

\* min(len(source_articles), 12) (scheduler.py:128)
US_ARTICLES_TO_TAKE == 12

\* min(len(source_articles), 5) (scheduler.py:136)
INTL_ARTICLES_TO_TAKE == 5

\* article.get('source', 'Unknown')
SourceOf(article) == DictGet(article, "source", "Unknown")

\* The keys of articles_by_source in dict order: each source at the place of
\* its first article.
SourcesInOrder(articles) ==
    LET first == SelectSeq([i \in 1..Len(articles) |-> i],
                           LAMBDA i : \A j \in 1..(i - 1) :
                                         SourceOf(articles[j]) # SourceOf(articles[i]))
    IN  [k \in 1..Len(first) |-> SourceOf(articles[first[k]])]

\* articles_by_source[source]
ArticlesOfSource(articles, source) ==
    SelectSeq(articles, LAMBDA a : SourceOf(a) = source)

RECURSIVE Flatten(_)
Flatten(seqs) ==
    IF seqs = <<>> THEN <<>> ELSE Head(seqs) \o Flatten(Tail(seqs))

\* The same selection with the unused max_per_source (8) as the cap of every
\* source.
select_balanced_articles_per_source_FlatCap(all_articles) ==
    LET sources == SourcesInOrder(all_articles)
    IN  Flatten([k \in 1..Len(sources) |->
                    Take(ArticlesOfSource(all_articles, sources[k]), 8)])

\* NewsScheduler._select_balanced_articles_per_source: the US groups in dict
\* order, at most 12 of each, then the other groups, at most 5 of each.
select_balanced_articles_per_source(all_articles) ==
    LET sources == SourcesInOrder(all_articles)
        us_sources_found == SelectSeq(sources, LAMBDA s : s \in scheduler_us_sources)
        intl_sources_found == SelectSeq(sources, LAMBDA s : s \notin scheduler_us_sources)
        us_selected ==
            [k \in 1..Len(us_sources_found) |->
                LET source_articles == ArticlesOfSource(all_articles, us_sources_found[k])
                IN  Take(source_articles, Min(Len(source_articles), US_ARTICLES_TO_TAKE))]
        intl_selected ==
            [k \in 1..Len(intl_sources_found) |->
                LET source_articles == ArticlesOfSource(all_articles, intl_sources_found[k])
                IN  Take(source_articles, Min(Len(source_articles), INTL_ARTICLES_TO_TAKE))]
    IN  Flatten(us_selected) \o Flatten(intl_selected)

-----------------------------------------------------------------------------
(* The pre-storage selection on its own *)

\* Bound: an input list is at most MaxRuns runs of articles of one source.
MaxRuns == 2

\* The lengths of a run: below, at and above each cap, and the 20 and 8 of
\* the storage-cap scenario.
RunLens == {1, 5, 6, 8, 12, 13, 20}

\* The sources of a run; NoSourceKey is a run of articles with no 'source'.
NoSourceKey == "<no source key>"
RunSources == {"CNN", "New York Post", "Al Jazeera", NoSourceKey}

SiteOf(source) ==
    CASE source = "CNN" -> "cnn.com"
      [] source = "New York Post" -> "nypost.com"
      [] source = "Al Jazeera" -> "aljazeera.com"
      [] OTHER -> "example.org"

RunArticle(source, n) ==
    IF source = NoSourceKey
    THEN [url |-> Url(SiteOf(source), n)]
    ELSE [url |-> Url(SiteOf(source), n), source |-> source]

\* The list made of the given runs; the n-th article of the list is page n.
RECURSIVE ListOfRuns(_)
ListOfRuns(runs) ==
    IF runs = <<>> THEN <<>>
    ELSE LET k == Len(runs)
             before == ListOfRuns(SubSeq(runs, 1, k - 1))
         IN  before \o [j \in 1..runs[k][2] |-> RunArticle(runs[k][1], Len(before) + j)]

SelectInputs ==
    UNION { { ListOfRuns(r) : r \in [1..k -> RunSources \X RunLens] } :
            k \in 0..MaxRuns }

ApplySelect ==
    /\ call.fn = "_select_balanced_articles_per_source"
    /\ ret = NoRet
    /\ ret' = [op |-> "_select_balanced_articles_per_source", raised |-> "none",
               value |-> select_balanced_articles_per_source(call.all_articles)]
    /\ UNCHANGED <<dbVars, call, botVars, schedVars>>

SelectInit ==
    /\ store = <<>>
    /\ now = 0
    /\ call \in { [fn |-> "_select_balanced_articles_per_source", all_articles |-> l] :
                    l \in SelectInputs }
    /\ ret = NoRet
    /\ BotAtStart
    /\ SchedulerAtStart

SelectNext == ApplySelect

SelectSpec == SelectInit /\ [][SelectNext]_vars

CountOfSource(articles, source) ==
    Cardinality({i \in DOMAIN articles : SourceOf(articles[i]) = source})

\* C2: from a source group of size g the selection takes exactly min(g, 12)
\* articles when the source is primary-tier and exactly min(g, 5) when it
\* is secondary-tier.
C2_TieredCaps ==
    ret.op = "_select_balanced_articles_per_source"
        => \A s \in {SourceOf(call.all_articles[i]) : i \in DOMAIN call.all_articles} :
              LET g == CountOfSource(call.all_articles, s)
              IN  CountOfSource(ret.value, s) =
                     IF s \in scheduler_us_sources THEN Min(g, 12) ELSE Min(g, 5)

\* C2 witness: 20 CNN articles and 8 Al Jazeera articles yield 12 + 5 = 17.
C2_Witness ==
    /\ ret.op = "_select_balanced_articles_per_source"
    /\ Len(call.all_articles) = 28
    /\ CountOfSource(call.all_articles, "CNN") = 20
    /\ CountOfSource(call.all_articles, "Al Jazeera") = 8
    /\ Len(ret.value) = 17
    /\ CountOfSource(ret.value, "CNN") = 12
    /\ CountOfSource(ret.value, "Al Jazeera") = 5

-----------------------------------------------------------------------------
(* summarizer.py: NewsSummarizer.select_relevant_articles *)

\* str.strip(): the text without its leading and trailing white space.
IsSpace(c) == c \in {" ", "\n", "\t"}

Strip(text) ==
    LET solid == {i \in DOMAIN text : ~IsSpace(text[i])}
    IN  IF solid = {} THEN <<>>
        ELSE SubSeq(text,
                    CHOOSE i \in solid : \A j \in solid : i <= j,
                    CHOOSE i \in solid : \A j \in solid : j <= i)

\* str.split(sep): the fields between the separators.
RECURSIVE Split(_, _)
Split(text, sep) ==
    LET at == {i \in DOMAIN text : text[i] = sep}
    IN  IF at = {} THEN <<text>>
        ELSE LET i == CHOOSE i \in at : \A j \in at : i <= j
             IN  <<SubSeq(text, 1, i - 1)>> \o Split(SubSeq(text, i + 1, Len(text)), sep)

\* str.upper()
Upper(text) == [i \in DOMAIN text |-> AsciiUpper(text[i])]

DecimalDigits == <<"0", "1", "2", "3", "4", "5", "6", "7", "8", "9">>
IsDecimal(c) == \E d \in DOMAIN DecimalDigits : DecimalDigits[d] = c
DigitValue(c) == (CHOOSE d \in DOMAIN DecimalDigits : DecimalDigits[d] = c) - 1

\* A character str.isdigit() accepts and int() rejects (SUPERSCRIPT TWO).
SuperscriptTwo == "^2"

\* str.isdigit(): not empty, and every character is a digit.
IsDigit(text) ==
    /\ text # <<>>
    /\ \A i \in DOMAIN text : IsDecimal(text[i]) \/ text[i] = SuperscriptTwo

\* int(text) for a text of decimal digits.
RECURSIVE DecimalValue(_)
DecimalValue(text) ==
    IF text = <<>> THEN 0
    ELSE 10 * DecimalValue(SubSeq(text, 1, Len(text) - 1)) + DigitValue(text[Len(text)])

\* int(text): the value, or ValueError.
IntOf(text) ==
    IF text # <<>> /\ \A i \in DOMAIN text : IsDecimal(text[i])
    THEN [raised |-> "none", value |-> DecimalValue(text)]
    ELSE [raised |-> "ValueError", value |-> 0]

Returns(v) == [raised |-> "none", value |-> v]
Raises(e) == [raised |-> e, value |-> <<>>]

\* selected_ids = [id for id in selected_ids if id in valid_ids]
ValidateIds_Unchecked(selected_ids, all_articles) == selected_ids

ValidateIds(selected_ids, all_articles) ==
    LET valid_ids == {all_articles[i].id : i \in DOMAIN all_articles}
    IN  SelectSeq(selected_ids, LAMBDA id : id \in valid_ids)

\* The inner try block (summarizer.py:316-327): the digit fields as ints,
\* validated and cut to max_articles; a ValueError returns [].
ParseSelectedIds(result, all_articles, max_articles) ==
    LET fields == SelectSeq(Split(result, ","), LAMBDA f : IsDigit(Strip(f)))
        ints == [k \in DOMAIN fields |-> IntOf(Strip(fields[k]))]
    IN  IF \E k \in DOMAIN ints : ints[k].raised = "ValueError"
        THEN Returns(<<>>)
        ELSE Returns(Take(ValidateIds([k \in DOMAIN ints |-> ints[k].value], all_articles),
                          max_articles))

\* The outer try block (summarizer.py:225-327). llm is what the chat
\* completion does: it raises, or it answers with a content (NULL for None).
SelectRelevantBody(all_articles, max_articles, llm) ==
    IF all_articles = <<>> THEN Returns(<<>>)
    ELSE IF llm.kind = "error" THEN Raises("APIError")
    ELSE IF llm.content = NULL THEN Raises("AttributeError")
    ELSE LET result == Strip(llm.content)
         IN  IF Upper(result) = <<"N", "O", "N", "E">> THEN Returns(<<>>)
             ELSE ParseSelectedIds(result, all_articles, max_articles)

\* except Exception: return []
ExceptReturnsEmpty_Reraise(outcome) == outcome

ExceptReturnsEmpty(outcome) ==
    IF outcome.raised # "none" THEN Returns(<<>>) ELSE outcome

\* NewsSummarizer.select_relevant_articles
select_relevant_articles(all_articles, max_articles, llm) ==
    ExceptReturnsEmpty(SelectRelevantBody(all_articles, max_articles, llm))

-----------------------------------------------------------------------------
(* Relevance selection on its own *)

\* Bounds: the length of an LLM reply and the largest max_articles.
MaxReplyLen == 4
MaxSelect == 2

ReplyAlphabet == {"1", "2", ",", " ", "x", SuperscriptTwo}

Replies ==
    UNION { [1..n -> ReplyAlphabet] : n \in 0..MaxReplyLen }
    \cup { <<"N", "O", "N", "E">>, <<" ", "n", "o", "n", "e", "\n">> }

LlmOutcomes ==
    { [kind |-> "error"], [kind |-> "reply", content |-> NULL] }
    \cup { [kind |-> "reply", content |-> r] : r \in Replies }

Candidate(id) == [id |-> id, title |-> T_Markets, source |-> "CNN"]

CandidateLists ==
    { <<>>, <<Candidate(1), Candidate(2)>>, <<Candidate(2), Candidate(12)>> }

ApplySelectRelevant ==
    /\ call.fn = "select_relevant_articles"
    /\ ret = NoRet
    /\ LET out == select_relevant_articles(call.all_articles, call.max_articles, call.llm)
       IN  ret' = [op |-> "select_relevant_articles", raised |-> out.raised,
                   value |-> out.value]
    /\ UNCHANGED <<dbVars, call, botVars, schedVars>>

RelevanceInit ==
    /\ store = <<>>
    /\ now = 0
    /\ call \in { [fn |-> "select_relevant_articles", all_articles |-> c,
                   max_articles |-> m, llm |-> l] :
                    c \in CandidateLists, m \in 1..MaxSelect, l \in LlmOutcomes }
    /\ ret = NoRet
    /\ BotAtStart
    /\ SchedulerAtStart

RelevanceNext == ApplySelectRelevant

RelevanceSpec == RelevanceInit /\ [][RelevanceNext]_vars

CandidateIds == {call.all_articles[i].id : i \in DOMAIN call.all_articles}

\* C3: every id select_relevant_articles returns is the id of a candidate,
\* and it returns at most max_articles ids.
C3_ReturnedIdsAreCandidates ==
    ret.op = "select_relevant_articles"
        => /\ \A i \in DOMAIN ret.value : ret.value[i] \in CandidateIds
           /\ Len(ret.value) <= call.max_articles

\* The comma-separated fields of a reply, trimmed.
ReplyFields(reply) ==
    LET fields == Split(Strip(reply), ",")
    IN  [k \in DOMAIN fields |-> Strip(fields[k])]

IsNumeral(text) == text # <<>> /\ \A i \in DOMAIN text : IsDecimal(text[i])

\* The ids a reply names: its fields that are decimal numerals.
NamedIds(reply) ==
    {DecimalValue(f) : f \in {g \in Range(ReplyFields(reply)) : IsNumeral(g)}}

\* C3 witness: the reply named an id of no candidate beside a candidate's,
\* and the candidate's id alone came back.
C3_Witness ==
    /\ ret.op = "select_relevant_articles"
    /\ call.llm.kind = "reply"
    /\ call.llm.content # NULL
    /\ \E id \in NamedIds(call.llm.content) : id \notin CandidateIds
    /\ ret.value # <<>>

LlmCallFailed == call.llm.kind = "error"

IsNoneSentinel(reply) == Upper(Strip(reply)) = <<"N", "O", "N", "E">>

\* A reply is well formed when it is the NONE sentinel or purely a
\* comma-separated list of ids.
WellFormed(reply) ==
    \/ IsNoneSentinel(reply)
    \/ \A k \in DOMAIN ReplyFields(reply) : IsNumeral(ReplyFields(reply)[k])

NamesNoCandidate(reply) == NamedIds(reply) \cap CandidateIds = {}

\* C6 as claimed: the empty list, and no exception, when the LLM call
\* fails, when the reply is malformed and when it names no candidate id.
C6_EmptyOnEveryFailure ==
    ret.op = "select_relevant_articles"
        => /\ ret.raised = "none"
           /\ (\/ LlmCallFailed
               \/ call.llm.content = NULL
               \/ ~WellFormed(call.llm.content)
               \/ NamesNoCandidate(call.llm.content)) => ret.value = <<>>

\* C6 as amended: no exception ever; the empty list when the LLM call
\* fails, when the reply is the NONE sentinel and when the reply names no
\* candidate id.
C6_EmptyOnFailureOrNoCandidate ==
    ret.op = "select_relevant_articles"
        => /\ ret.raised = "none"
           /\ (\/ LlmCallFailed
               \/ call.llm.content = NULL
               \/ IsNoneSentinel(call.llm.content)
               \/ NamesNoCandidate(call.llm.content)) => ret.value = <<>>

\* C6 witness: the LLM call failed and the empty list came back.
C6_Witness ==
    /\ ret.op = "select_relevant_articles"
    /\ LlmCallFailed
    /\ call.all_articles # <<>>
    /\ ret.raised = "none"
    /\ ret.value = <<>>

-----------------------------------------------------------------------------
(* summarizer.py: NewsSummarizer.analyze_article and _parse_analysis *)

T_Unknown == <<"U","n","k","n","o","w","n">>
T_Neutral == <<"N","e","u","t","r","a","l">>
T_SummaryUnavailable ==
    <<"S","u","m","m","a","r","y"," ","u","n","a","v","a","i","l","a","b","l","e">>
P_SUMMARY == <<"S","U","M","M","A","R","Y",":">>
P_INTENT == <<"I","N","T","E","N","T",":">>
P_EMOTION == <<"E","M","O","T","I","O","N",":">>

\* {**d, **update}
DictUpdate(d, update) ==
    [k \in DOMAIN d \cup DOMAIN update |->
        IF k \in DOMAIN update THEN update[k] ELSE d[k]]

\* str.startswith(prefix)
StartsWith(text, prefix) ==
    Len(text) >= Len(prefix) /\ SubSeq(text, 1, Len(prefix)) = prefix

\* str.replace(old, ''): every occurrence of old removed, left to right.
RECURSIVE RemoveAll(_, _)
RemoveAll(text, old) ==
    IF text = <<>> THEN <<>>
    ELSE IF StartsWith(text, old)
         THEN RemoveAll(SubSeq(text, Len(old) + 1, Len(text)), old)
         ELSE <<Head(text)>> \o RemoveAll(Tail(text), old)

\* The loop over the lines of the analysis (summarizer.py:76-83).
RECURSIVE ParseLines(_, _)
ParseLines(lines, fields) ==
    IF lines = <<>> THEN fields
    ELSE LET line == Strip(Head(lines))
             next ==
                 IF StartsWith(line, P_SUMMARY)
                 THEN [fields EXCEPT !.summary = Strip(RemoveAll(line, P_SUMMARY))]
                 ELSE IF StartsWith(line, P_INTENT)
                 THEN [fields EXCEPT !.intent = Strip(RemoveAll(line, P_INTENT))]
                 ELSE IF StartsWith(line, P_EMOTION)
                 THEN [fields EXCEPT !.emotion = Strip(RemoveAll(line, P_EMOTION))]
                 ELSE fields
         IN  ParseLines(Tail(lines), next)

\* NewsSummarizer._parse_analysis
parse_analysis(analysis_text, original_article) ==
    DictUpdate(original_article,
               ParseLines(Split(Strip(analysis_text), "\n"),
                          [summary |-> DictGet(original_article, "summary",
                                               T_SummaryUnavailable),
                           intent |-> T_Unknown,
                           emotion |-> T_Neutral]))

\* The except branch of analyze_article (summarizer.py:59-66) with the
\* article's own fields left out of the record it returns.
AnalysisFallback_DefaultsOnly(article_data) ==
    [summary |-> DictGet(article_data, "summary", T_SummaryUnavailable),
     intent |-> T_Unknown,
     emotion |-> T_Neutral]

\* The except branch of analyze_article (summarizer.py:59-66).
AnalysisFallback(article_data) ==
    DictUpdate(article_data,
               [summary |-> DictGet(article_data, "summary", T_SummaryUnavailable),
                intent |-> T_Unknown,
                emotion |-> T_Neutral])

\* The try block of analyze_article (summarizer.py:19-57): slicing a None
\* full_text raises, the chat completion may raise, and a None content
\* raises in _parse_analysis.
AnalyzeBody(article_data, llm) ==
    IF DictGet(article_data, "full_text", <<>>) = NULL THEN Raises("TypeError")
    ELSE IF llm.kind = "error" THEN Raises("APIError")
    ELSE IF llm.content = NULL THEN Raises("AttributeError")
    ELSE Returns(parse_analysis(llm.content, article_data))

\* NewsSummarizer.analyze_article
analyze_article(article_data, llm) ==
    LET out == AnalyzeBody(article_data, llm)
    IN  IF out.raised # "none" THEN Returns(AnalysisFallback(article_data)) ELSE out

-----------------------------------------------------------------------------
(* Single-article analysis on its own *)

R_Full ==
    <<"S","U","M","M","A","R","Y",":"," ","o","k","\n",
      "I","N","T","E","N","T",":"," ","w","a","r","n","\n",
      " ","E","M","O","T","I","O","N",":"," ","a","n","g","r","y"," ">>
R_SummaryOnly == <<"S","U","M","M","A","R","Y",":"," ","o","k">>
R_Prose == <<"n","o"," ","i","d","e","a">>
R_Repeated ==
    <<"I","N","T","E","N","T",":"," ","t","o"," ","I","N","T","E","N","T",":"," ",
      "w","a","r","n","\n","n","o","t","e">>

AnalysisLlmOutcomes ==
    { [kind |-> "error"], [kind |-> "reply", content |-> NULL] }
    \cup { [kind |-> "reply", content |-> r] :
             r \in {R_Full, R_SummaryOnly, R_Prose, R_Repeated, <<>>} }

\* The articles handed to analyze_article: fetched articles, an article
\* whose full_text is None and a dict with no summary.
AnalysisInputs ==
    LET fetched == { FetchedArticle(t, u, "CNN", s) :
                       t \in {T_Markets, T_Election},
                       u \in {Url("cnn.com", 1), Url("cnn.com", 2)},
                       s \in {<<>>, T_Poll} }
    IN  fetched
        \cup { [a EXCEPT !.full_text = NULL] : a \in fetched }
        \cup { [title |-> a.title, url |-> a.url, source |-> a.source] : a \in fetched }

ApplyAnalyze ==
    /\ call.fn = "analyze_article"
    /\ ret = NoRet
    /\ LET out == analyze_article(call.article_data, call.llm)
       IN  ret' = [op |-> "analyze_article", raised |-> out.raised, value |-> out.value]
    /\ UNCHANGED <<dbVars, call, botVars, schedVars>>

AnalyzeInit ==
    /\ store = <<>>
    /\ now = 0
    /\ call \in { [fn |-> "analyze_article", article_data |-> a, llm |-> l] :
                    a \in AnalysisInputs, l \in AnalysisLlmOutcomes }
    /\ ret = NoRet
    /\ BotAtStart
    /\ SchedulerAtStart

AnalyzeNext == ApplyAnalyze

AnalyzeSpec == AnalyzeInit /\ [][AnalyzeNext]_vars

\* C5: when the LLM call fails, analyze_article raises nothing and returns
\* the article with every field other than intent and emotion as it was,
\* intent "Unknown" and emotion "Neutral".
C5_DegradedAnalysisKeepsFields ==
    (ret.op = "analyze_article" /\ call.llm.kind = "error")
        => /\ ret.raised = "none"
           /\ \A k \in DOMAIN call.article_data \ {"intent", "emotion"} :
                 k \in DOMAIN ret.value /\ ret.value[k] = call.article_data[k]
           /\ ret.value.intent = T_Unknown
           /\ ret.value.emotion = T_Neutral

\* C5 witness: the LLM call failed for a fetched article with a feed summary.
C5_Witness ==
    /\ ret.op = "analyze_article"
    /\ call.llm.kind = "error"
    /\ "summary" \in DOMAIN call.article_data
    /\ call.article_data.summary = T_Poll
    /\ call.article_data.full_text = T_Poll
    /\ ret.value.title = call.article_data.title
    /\ ret.value.intent = T_Unknown

-----------------------------------------------------------------------------
(* bot.py: the |news command and cleanup_old_selections *)

\* NewsDatabase.get_articles_by_source: WHERE source = ? ORDER BY
\* created_at DESC LIMIT ?, the results the query may return.
get_articles_by_source(rows, source, limit) ==
    { Take(r, limit) :
        r \in OrderByCreatedAtDesc(SelectSeq(rows, LAMBDA w : w.source = source)) }

\* `limit = 10` of fetch_news and the page of its partial-match fallback.
NEWS_LIMIT == 10
NEWS_FALLBACK_LIMIT == 100
\* `articles[:9]`: one number emoji per displayed article.
NEWS_DISPLAY_MAX == 9

\* The characters of the source names the model uses.
SourceText(name) ==
    CASE name = "CNN" -> <<"C", "N", "N">>
      [] name = "cnn" -> <<"c", "n", "n">>
      [] name = "BBC" -> <<"B", "B", "C">>
      [] name = "Al Jazeera" -> <<"A", "l", " ", "J", "a", "z", "e", "e", "r", "a">>
      [] name = "New York Post" ->
            <<"N", "e", "w", " ", "Y", "o", "r", "k", " ", "P", "o", "s", "t">>

\* `source.lower() in a.get('source', '').lower()`.
SourceContains(source, stored) ==
    LET q == SourceText(source)
        t == SourceText(stored)
    IN  \E k \in 0..(Len(t) - Len(q)) :
            \A i \in 1..Len(q) : AsciiLower(t[k + i]) = AsciiLower(q[i])

\* fetch_news, bot.py:335-354: the lists `articles` may be bound to. A
\* stored source of None has no lower(): the comprehension raises.
NewsArticles(rows, source) ==
    IF source = None
    THEN { Returns(r) : r \in get_recent_articles(rows, NEWS_LIMIT) }
    ELSE LET exact == get_articles_by_source(rows, source, NEWS_LIMIT)
         IN  IF exact # {<<>>}
             THEN { Returns(r) : r \in exact }
             ELSE IF \E i \in DOMAIN rows : rows[i].source = None
                  THEN { Raises("AttributeError") }
                  ELSE { Returns(Take(SelectSeq(all,
                                         LAMBDA a : SourceContains(source, a.source)),
                                      NEWS_LIMIT)) :
                           all \in get_recent_articles(rows, NEWS_FALLBACK_LIMIT) }

\* f"{ctx.channel.id}_{status_message.id}_{ctx.author.id}": ids are
\* decimal numerals, so the three parts determine the key and conversely.
SelectionKey(channel_id, message_id, user_id) == <<channel_id, message_id, user_id>>

\* `d[key] = value` and `del d[key]` for each key of a set.
DictSet(d, key, value) ==
    [k \in DOMAIN d \cup {key} |-> IF k = key THEN value ELSE d[k]]
DictDel(d, keys) == [k \in DOMAIN d \ keys |-> d[k]]

\* The channel the commands are sent in.
Channel == "general"

\* Bound: the messages the bot sends.
MaxMessages == 2

\* The |news command. The coroutine's suspension points before line 402
\* (the send and the edit of the status message) touch no state of the
\* bot; the selection is stored, with the time of that moment, in one
\* uninterrupted stretch. On an exception the handler sends a second
\* message and stores nothing.
fetch_news(user, source) ==
    /\ running = NoTask
    /\ next_message_id <= MaxMessages
    /\ \E out \in NewsArticles(store, source) :
          LET message_id == next_message_id
              selection_key == SelectionKey(Channel, message_id, user)
              display_articles == Take(out.value, NEWS_DISPLAY_MAX)
          IN  IF out.raised # "none"
              THEN /\ next_message_id' = message_id + 2
                   /\ UNCHANGED pending_selections
              ELSE /\ next_message_id' = message_id + 1
                   /\ pending_selections' =
                        IF out.value = <<>>
                        THEN pending_selections
                        ELSE DictSet(pending_selections, selection_key,
                                     [articles |-> display_articles,
                                      source |-> source,
                                      user_id |-> user,
                                      channel_id |-> Channel,
                                      message_id |-> message_id,
                                      timestamp |-> now,
                                      selected_indices |-> <<>>])
    /\ UNCHANGED <<dbVars, call, ret, next_sweep, handlers, schedVars>>

\* timedelta(minutes=5) and asyncio.sleep(300), in seconds.
SELECTION_TTL == 300
SWEEP_SLEEP == 300

\* bot.py:52-53, with the mutation that expires a selection at the age of
\* exactly five minutes.
Expired_AtFiveMinutes(data, current_time) ==
    /\ "timestamp" \in DOMAIN data
    /\ current_time - data.timestamp >= SELECTION_TTL

\* bot.py:52-53.
Expired(data, current_time) ==
    /\ "timestamp" \in DOMAIN data
    /\ current_time - data.timestamp > SELECTION_TTL

\* One pass of the loop of cleanup_old_selections, from the end of a sleep
\* to the start of the next; the sleep ends no earlier than it was asked to.
cleanup_old_selections ==
    /\ running = NoTask
    /\ now >= next_sweep
    /\ LET current_time == now
           expired_keys == { key \in DOMAIN pending_selections :
                               Expired(pending_selections[key], current_time) }
       IN  /\ pending_selections' = DictDel(pending_selections, expired_keys)
           /\ ret' = [op |-> "cleanup_old_selections", at |-> current_time,
                      expired |-> { <<key, pending_selections[key].timestamp>> :
                                      key \in expired_keys }]
    /\ next_sweep' = now + SWEEP_SLEEP
    /\ UNCHANGED <<dbVars, call, next_message_id, handlers, schedVars>>

-----------------------------------------------------------------------------
(* Pending selections under the periodic sweep *)

\* Bound: the minutes the clock runs for.
MaxSweepMinutes == 7

SECONDS_PER_MINUTE == 60

\* The store the commands read: two CNN articles.
SweepStore == Populate(<<[title |-> T_Markets, summary |-> <<>>],
                         [title |-> T_Election, summary |-> <<>>]>>, <<0, 0>>)

SweepUsers == {"alice"}
NewsSources == {None, "CNN", "cnn", "BBC"}

\* A minute passes.
SweepTick ==
    /\ now < MaxSweepMinutes * SECONDS_PER_MINUTE
    /\ now' = now + SECONDS_PER_MINUTE
    /\ UNCHANGED <<store, call, ret, botVars, schedVars>>

SweepInit ==
    /\ store = SweepStore
    /\ now = 0
    /\ call = NoCall
    /\ ret = NoRet
    /\ BotAtStart
    /\ SchedulerAtStart

SweepNext ==
    \/ \E u \in SweepUsers, s \in NewsSources : fetch_news(u, s)
    \/ cleanup_old_selections
    \/ SweepTick

SweepSpec == SweepInit /\ [][SweepNext]_vars

Age(key) == now - pending_selections[key].timestamp

\* C7: a pass of the periodic sweep keeps every pending selection whose age
\* is at most five minutes and removes every one whose age exceeds five
\* minutes.
C7_SweepRemovesOnlyOlderThanFiveMinutes ==
    [][cleanup_old_selections =>
         \A key \in DOMAIN pending_selections :
            /\ Age(key) <= 5 * SECONDS_PER_MINUTE
                  => /\ key \in DOMAIN pending_selections'
                     /\ pending_selections'[key] = pending_selections[key]
            /\ Age(key) > 5 * SECONDS_PER_MINUTE
                  => key \notin DOMAIN pending_selections']_vars

\* C7 witness: one sweep has removed a selection created six minutes before
\* it and kept one created four minutes before it.
C7_Witness ==
    /\ ret.op = "cleanup_old_selections"
    /\ ret.at = now
    /\ \E e \in ret.expired :
          /\ now - e[2] = 6 * SECONDS_PER_MINUTE
          /\ e[1] \notin DOMAIN pending_selections
    /\ \E key \in DOMAIN pending_selections : Age(key) = 4 * SECONDS_PER_MINUTE

-----------------------------------------------------------------------------
(* news_fetcher.py: fetch_all_sources; summarizer.py: batch_analyze_articles *)

\* us_sources of the fetcher (news_fetcher.py:20-23)
fetcher_us_sources ==
    {"CNN", "Fox News", "Reuters", "New York Times", "Washington Post",
     "NBC News", "ABC News", "NPR", "New York Post"}

\* us_limit and intl_limit of _prioritize_us_sources
US_LIMIT == 12
INTL_LIMIT == 5

\* The orders a loop over a set can visit its elements in.
Orderings(S) ==
    { f \in [1..Cardinality(S) -> S] :
        \A i, j \in 1..Cardinality(S) : i # j => f[i] # f[j] }

\* NewsFetcher._prioritize_us_sources: the US groups in the order the set
\* us_sources is iterated in, at most us_limit of each, then the other
\* groups in dict order, at most intl_limit of each. The lists it may return.
prioritize_us_sources(articles) ==
    LET sources == SourcesInOrder(articles)
        us_found == { s \in Range(sources) : s \in fetcher_us_sources }
        intl_found == SelectSeq(sources, LAMBDA s : s \notin fetcher_us_sources)
        intl_selected ==
            [k \in 1..Len(intl_found) |->
                Take(ArticlesOfSource(articles, intl_found[k]), INTL_LIMIT)]
    IN  { Flatten([k \in 1..Len(order) |->
                      Take(ArticlesOfSource(articles, order[k]), US_LIMIT)])
            \o Flatten(intl_selected) :
          order \in Orderings(us_found) }

\* NewsFetcher.fetch_all_sources, given all_articles: what the feeds and
\* NewsAPI returned, in feed order (a feed that fails adds nothing).
fetch_all_sources(all_articles) == prioritize_us_sources(all_articles)

\* summarizer.py:92-108 with a loop that ends at the first article whose
\* chat completion fails.
batch_analyze_articles_StopsAtFailure(articles, llm) ==
    LET failed == {i \in 1..Len(articles) : llm[i].kind = "error"}
        n == IF failed = {} THEN Len(articles)
             ELSE (CHOOSE i \in failed : \A j \in failed : i <= j) - 1
    IN  [i \in 1..n |-> analyze_article(articles[i], llm[i]).value]

\* NewsSummarizer.batch_analyze_articles, the i-th chat completion having
\* the outcome llm[i].
batch_analyze_articles(articles, llm) ==
    [i \in 1..Len(articles) |-> analyze_article(articles[i], llm[i]).value]

-----------------------------------------------------------------------------
(* scheduler.py: NewsScheduler.fetch_and_process_news, stage by stage *)

\* int(os.getenv('FETCH_INTERVAL_HOURS', 24))
FETCH_INTERVAL_HOURS == 24
SECONDS_PER_HOUR == 3600

\* scheduler.py:32-36 with `not force` left out of the condition.
SkipsFetch_IgnoresForce(force, last_auto, current_time) ==
    /\ last_auto # NoTime
    /\ current_time - last_auto < FETCH_INTERVAL_HOURS * SECONDS_PER_HOUR

\* scheduler.py:32-36 with the early return left out.
SkipsFetch_Never(force, last_auto, current_time) == FALSE

\* scheduler.py:32-36: the cycle is skipped.
SkipsFetch(force, last_auto, current_time) ==
    /\ ~force
    /\ last_auto # NoTime
    /\ current_time - last_auto < FETCH_INTERVAL_HOURS * SECONDS_PER_HOUR

\* scheduler.py:48-51
FilterNew(articles, rows) ==
    SelectSeq(articles, LAMBDA article : ~article_exists(rows, article.url))

\* The places a coroutine is suspended at: before it is first run, after
\* the awaited send of update_news (bot.py:443), and when it has finished.
\* The mutation makes the fetch of scheduler.py:41 an awaited call.
AwaitsBefore_FetchAwaited(pc) == pc \in {"idle", "ready", "sent", "done", "dedup"}

\* fetch_and_process_news has no await between its first and its last
\* statement (scheduler.py:28-87).
AwaitsBefore(pc) == pc \in {"idle", "ready", "sent", "done"}

\* The coroutine t is at pc and the event loop can run it: the loop is free
\* when t is suspended, and is t's own otherwise.
AtStage(t, pc) ==
    /\ tasks[t].pc = pc
    /\ running = IF AwaitsBefore(pc) THEN NoTask ELSE t

\* t goes on to the given frame, giving up the loop if it suspends there.
Goto(t, frame) ==
    /\ tasks' = [tasks EXCEPT ![t] = frame]
    /\ running' = IF AwaitsBefore(frame.pc) THEN NoTask ELSE t

\* scheduler.py:32-38
Guard(t) ==
    /\ AtStage(t, "guard")
    /\ Goto(t, [tasks[t] EXCEPT !.pc =
                   IF SkipsFetch(tasks[t].force, last_auto_fetch, now)
                   THEN "return" ELSE "fetch"])
    /\ UNCHANGED <<dbVars, call, ret, botVars, last_auto_fetch, last_manual_fetch,
                   apscheduler>>

\* scheduler.py:41-45
Fetch(t, all_articles) ==
    /\ AtStage(t, "fetch")
    /\ \E articles \in fetch_all_sources(all_articles) :
          Goto(t, [tasks[t] EXCEPT !.articles = articles,
                                   !.pc = IF articles = <<>> THEN "return" ELSE "dedup"])
    /\ UNCHANGED <<dbVars, call, ret, botVars, last_auto_fetch, last_manual_fetch,
                   apscheduler>>

\* scheduler.py:47-55
Dedup(t) ==
    /\ AtStage(t, "dedup")
    /\ LET new_articles == FilterNew(tasks[t].articles, store)
       IN  Goto(t, [tasks[t] EXCEPT !.new_articles = new_articles,
                                    !.pc = IF new_articles = <<>> THEN "return"
                                           ELSE "select"])
    /\ UNCHANGED <<dbVars, call, ret, botVars, last_auto_fetch, last_manual_fetch,
                   apscheduler>>

\* scheduler.py:61
Select(t) ==
    /\ AtStage(t, "select")
    /\ Goto(t, [tasks[t] EXCEPT
                  !.selected_articles =
                      select_balanced_articles_per_source(tasks[t].new_articles),
                  !.pc = "analyze"])
    /\ UNCHANGED <<dbVars, call, ret, botVars, last_auto_fetch, last_manual_fetch,
                   apscheduler>>

\* scheduler.py:65-70
Analyze(t, llm) ==
    /\ AtStage(t, "analyze")
    /\ Len(llm) = Len(tasks[t].selected_articles)
    /\ Goto(t, [tasks[t] EXCEPT
                  !.analyzed_articles =
                      batch_analyze_articles(tasks[t].selected_articles, llm),
                  !.i = 1,
                  !.stored_count = 0,
                  !.pc = IF tasks[t].selected_articles = <<>> THEN "stamp" ELSE "store"])
    /\ UNCHANGED <<dbVars, call, ret, botVars, last_auto_fetch, last_manual_fetch,
                   apscheduler>>

\* scheduler.py:71-76 without the try of line 72: an insert that raises
\* ends the cycle in the handler of line 86.
Store_AbortsOnError(t) ==
    /\ AtStage(t, "store")
    /\ LET f == tasks[t]
           out == InsertOutcome(store, f.analyzed_articles[f.i], now)
       IN  /\ store' = out.rows
           /\ Goto(t, [f EXCEPT
                         !.stored_count = IF out.raised = "none" THEN @ + 1 ELSE @,
                         !.i = IF out.raised = "none" THEN @ + 1 ELSE @,
                         !.pc = IF out.raised # "none" THEN "return"
                                ELSE IF f.i < Len(f.analyzed_articles) THEN "store"
                                ELSE "stamp"])
    /\ UNCHANGED <<now, call, ret, botVars, last_auto_fetch, last_manual_fetch,
                   apscheduler>>

\* scheduler.py:71-76, one turn of the loop: an insert that raises is
\* logged and the loop goes on.
Store(t) ==
    /\ AtStage(t, "store")
    /\ LET f == tasks[t]
           out == InsertOutcome(store, f.analyzed_articles[f.i], now)
       IN  /\ store' = out.rows
           /\ Goto(t, [f EXCEPT
                         !.stored_count = IF out.raised = "none" THEN @ + 1 ELSE @,
                         !.i = @ + 1,
                         !.pc = IF f.i < Len(f.analyzed_articles) THEN "store"
                                ELSE "stamp"])
    /\ UNCHANGED <<now, call, ret, botVars, last_auto_fetch, last_manual_fetch,
                   apscheduler>>

\* scheduler.py:80-84 with one stamp for both kinds of cycle.
Stamp_OneStamp(t) ==
    /\ AtStage(t, "stamp")
    /\ last_auto_fetch' = now
    /\ last_manual_fetch' = IF tasks[t].force THEN now ELSE last_manual_fetch
    /\ Goto(t, [tasks[t] EXCEPT !.pc = "return"])
    /\ UNCHANGED <<dbVars, call, ret, botVars, apscheduler>>

\* scheduler.py:80-84
Stamp(t) ==
    /\ AtStage(t, "stamp")
    /\ IF tasks[t].force
       THEN last_manual_fetch' = now /\ UNCHANGED last_auto_fetch
       ELSE last_auto_fetch' = now /\ UNCHANGED last_manual_fetch
    /\ Goto(t, [tasks[t] EXCEPT !.pc = "return"])
    /\ UNCHANGED <<dbVars, call, ret, botVars, apscheduler>>

-----------------------------------------------------------------------------
(* scheduler.py and bot.py: what starts a fetch cycle and what follows it *)

\* NewsDatabase.get_latest_update_time: the newest created_at, None when
\* the table is empty.
get_latest_update_time(rows) ==
    IF rows = <<>> THEN NoTime
    ELSE CHOOSE m \in {rows[i].created_at : i \in DOMAIN rows} :
            \A i \in DOMAIN rows : rows[i].created_at <= m

\* `6 * 3600` of start_scheduler
STARTUP_WINDOW_HOURS == 6

\* NewsScheduler.start_scheduler, called by on_ready. A job added with
\* next_run_time=None is added paused.
start_scheduler ==
    /\ running = NoTask
    /\ IF apscheduler.running
       THEN UNCHANGED apscheduler
       ELSE LET latest_update == get_latest_update_time(store)
                should_run_now ==
                    ~(/\ latest_update # NoTime
                      /\ now - latest_update < STARTUP_WINDOW_HOURS * SECONDS_PER_HOUR)
            IN  apscheduler' = [running |-> TRUE,
                                next_run_time |-> IF should_run_now THEN now ELSE NoTime]
    /\ UNCHANGED <<dbVars, call, ret, botVars, last_auto_fetch, last_manual_fetch,
                   tasks, running>>

\* The scheduler's default misfire_grace_time, in seconds: add_job sets none.
MISFIRE_GRACE_SECONDS == 1

\* The interval trigger of the job comes due and the scheduler, itself a
\* callback of the event loop, handles it: it starts the coroutine unless
\* the run is late by more than the grace time or the one allowed instance
\* exists, and sets the next run one interval later.
TimerFires ==
    /\ running = NoTask
    /\ apscheduler.running
    /\ apscheduler.next_run_time # NoTime
    /\ now >= apscheduler.next_run_time
    /\ LET run_time == apscheduler.next_run_time
           missed == now - run_time > MISFIRE_GRACE_SECONDS
           busy == tasks[JobTask].pc # "idle"
       IN  /\ tasks' = IF missed \/ busy THEN tasks
                       ELSE [tasks EXCEPT ![JobTask] = Frame("ready", FALSE)]
           /\ apscheduler' =
                [apscheduler EXCEPT !.next_run_time =
                    run_time + FETCH_INTERVAL_HOURS * SECONDS_PER_HOUR]
    /\ UNCHANGED <<dbVars, call, ret, botVars, last_auto_fetch, last_manual_fetch,
                   running>>

\* The job's coroutine is run: fetch_and_process_news().
RunJob ==
    /\ AtStage(JobTask, "ready")
    /\ Goto(JobTask, [tasks[JobTask] EXCEPT !.pc = "guard"])
    /\ UNCHANGED <<dbVars, call, ret, botVars, last_auto_fetch, last_manual_fetch,
                   apscheduler>>

\* The job's coroutine returns.
JobReturns ==
    /\ AtStage(JobTask, "return")
    /\ Goto(JobTask, IdleFrame)
    /\ UNCHANGED <<dbVars, call, ret, botVars, last_auto_fetch, last_manual_fetch,
                   apscheduler>>

\* A user sends |update: the command waits for the event loop.
UpdateCommand(t) ==
    /\ t \in UpdateTasks
    /\ tasks[t].pc = "idle"
    /\ tasks' = [tasks EXCEPT ![t] = Frame("ready", TRUE)]
    /\ UNCHANGED <<dbVars, call, ret, botVars, last_auto_fetch, last_manual_fetch,
                   apscheduler, running>>

\* update_news up to its awaited send (bot.py:436-443).
update_news(t) ==
    /\ t \in UpdateTasks
    /\ AtStage(t, "ready")
    /\ Goto(t, [tasks[t] EXCEPT !.pc = "sent"])
    /\ UNCHANGED <<dbVars, call, ret, botVars, last_auto_fetch, last_manual_fetch,
                   apscheduler>>

\* manual_fetch enters fetch_and_process_news(force=True) (bot.py:446,
\* scheduler.py:192): awaiting a coroutine does not by itself suspend.
manual_fetch(t) ==
    /\ t \in UpdateTasks
    /\ AtStage(t, "sent")
    /\ Goto(t, [tasks[t] EXCEPT !.pc = "guard"])
    /\ UNCHANGED <<dbVars, call, ret, botVars, last_auto_fetch, last_manual_fetch,
                   apscheduler>>

\* `limit=10` of manual_fetch
MANUAL_FETCH_RECENT_LIMIT == 10

\* len(get_recent_articles(limit)): every result of the query has this
\* length.
RecentCount(rows, limit) == Min(Len(rows), limit)

\* The rest of manual_fetch and of update_news (scheduler.py:194-196,
\* bot.py:448-486): the count shown is the number of recent articles.
UpdateReplies(t) ==
    /\ t \in UpdateTasks
    /\ AtStage(t, "return")
    /\ LET article_count == RecentCount(store, MANUAL_FETCH_RECENT_LIMIT)
       IN  ret' = [op |-> "update_news", article_count |-> article_count,
                   stored_count |-> tasks[t].stored_count,
                   reply |-> IF article_count > 0 THEN "News Update Complete"
                             ELSE "No New Articles"]
    /\ Goto(t, [tasks[t] EXCEPT !.pc = "done"])
    /\ UNCHANGED <<dbVars, call, botVars, last_auto_fetch, last_manual_fetch,
                   apscheduler>>

-----------------------------------------------------------------------------
(* Fetch cycles on the event loop *)

\* Bound: the fetch intervals the clock runs for.
MaxCycleIntervals == 1

FeedArticle(source, n) ==
    FetchedArticle(T_Markets, Url(SiteOf(source), n), source, <<>>)

\* The items from..to of a source's feed.
FeedPage(source, from, to) ==
    [k \in 1..(to - from + 1) |-> FeedArticle(source, from + k - 1)]

\* What the feeds and NewsAPI return to one fetch: nothing, one CNN item,
\* two CNN items, and an international item ahead of a US one.
FeedSnapshots ==
    { <<>>,
      FeedPage("CNN", 1, 1),
      FeedPage("CNN", 1, 2),
      FeedPage("Al Jazeera", 1, 1) \o FeedPage("CNN", 2, 2) }

\* The outcomes of the chat completions of one batch: every second call
\* fails, the others answer.
LlmRuns(n) ==
    { [i \in 1..n |-> IF i % 2 = 0 THEN [kind |-> "error"]
                      ELSE [kind |-> "reply", content |-> R_Full]] }

\* A fetch interval passes.
CycleTick ==
    /\ now < MaxCycleIntervals * FETCH_INTERVAL_HOURS * SECONDS_PER_HOUR
    /\ now' = now + FETCH_INTERVAL_HOURS * SECONDS_PER_HOUR
    /\ UNCHANGED <<store, call, ret, botVars, schedVars>>

CycleInit ==
    /\ store = <<>>
    /\ now = 0
    /\ call = NoCall
    /\ ret = NoRet
    /\ BotAtStart
    /\ SchedulerAtStart

CycleNext ==
    \/ start_scheduler
    \/ TimerFires
    \/ RunJob
    \/ JobReturns
    \/ \E t \in UpdateTasks : UpdateCommand(t)
    \/ \E t \in UpdateTasks : update_news(t)
    \/ \E t \in UpdateTasks : manual_fetch(t)
    \/ \E t \in UpdateTasks : UpdateReplies(t)
    \/ \E t \in TaskIds : Guard(t)
    \/ \E t \in TaskIds, all_articles \in FeedSnapshots : Fetch(t, all_articles)
    \/ \E t \in TaskIds : Dedup(t)
    \/ \E t \in TaskIds : Select(t)
    \/ \E t \in TaskIds : \E llm \in LlmRuns(Len(tasks[t].selected_articles)) :
          Analyze(t, llm)
    \/ \E t \in TaskIds : Store(t)
    \/ \E t \in TaskIds : Stamp(t)
    \/ CycleTick

CycleSpec == CycleInit /\ [][CycleNext]_vars

UrlsOf(articles) == {articles[i].url : i \in DOMAIN articles}

\* C4: the dedup stage passes on exactly the fetched articles whose url is
\* not in the store when it runs, and what selection and analysis are then
\* given has no url that is in the store.
C4_DedupPassesOnlyNewUrls ==
    /\ [][\A t \in TaskIds :
            Dedup(t) =>
               /\ UrlsOf(tasks'[t].new_articles) \cap StoredUrls = {}
               /\ tasks'[t].new_articles =
                     SelectSeq(tasks[t].articles, LAMBDA a : a.url \notin StoredUrls)]_vars
    /\ [](\A t \in TaskIds :
            /\ tasks[t].pc = "select"
                  => UrlsOf(tasks[t].new_articles) \cap StoredUrls = {}
            /\ tasks[t].pc = "analyze"
                  => UrlsOf(tasks[t].selected_articles) \cap StoredUrls = {})

\* C4 witness: with url A stored and a fetch that returned [A, B], the dedup
\* stage has passed on [B].
C4_Witness ==
    \E t \in TaskIds :
        /\ tasks[t].pc = "select"
        /\ tasks[t].articles = FeedPage("CNN", 1, 2)
        /\ StoredUrls = {Url("cnn.com", 1)}
        /\ tasks[t].new_articles = FeedPage("CNN", 2, 2)

\* A cycle is in flight: it has started and has not returned.
InFlight(t) ==
    tasks[t].pc \in {"guard", "fetch", "dedup", "select", "analyze", "store", "stamp"}

\* The timer's run is due, or an |update command has arrived, and its
\* coroutine has not been run yet.
TriggerWaiting(t) ==
    \/ tasks[t].pc = "ready"
    \/ tasks[t].pc = "sent"
    \/ /\ t = JobTask
       /\ tasks[t].pc = "idle"
       /\ apscheduler.next_run_time # NoTime
       /\ now >= apscheduler.next_run_time

\* C10: at most one fetch cycle is in flight at any time, and the store is
\* written by no one but the cycle in flight.
C10_OneCycleInFlight ==
    /\ [](\A t, u \in TaskIds : InFlight(t) /\ InFlight(u) => t = u)
    /\ [][store' # store => \E t \in TaskIds : InFlight(t) /\ running = t]_vars

\* C10 witness: a cycle is between two of its store writes while the
\* trigger of another cycle waits.
C10_Witness ==
    \E t, u \in TaskIds :
        /\ t # u
        /\ tasks[t].pc = "store"
        /\ tasks[t].i > 1
        /\ TriggerWaiting(u)

-----------------------------------------------------------------------------
(* The interval guard under the timer and repeated |update commands *)

\* Bound: the fetch intervals the clock runs for.
MaxTimerIntervals == 1

\* What the feeds return to one fetch here: one CNN item, or two.
TimerFeeds == { FeedPage("CNN", 1, 1), FeedPage("CNN", 1, 2) }

\* The interval of the job's trigger, in seconds.
IntervalSeconds == FETCH_INTERVAL_HOURS * SECONDS_PER_HOUR

\* A minute passes while a coroutine holds the event loop: the fetcher,
\* the chat completions and sqlite3 block it (scheduler.py:41-76).
BusyTick ==
    /\ running # NoTask
    /\ now % IntervalSeconds = 0
    /\ now' = now + SECONDS_PER_MINUTE
    /\ UNCHANGED <<store, call, ret, botVars, schedVars>>

\* Time passes up to the next multiple of the interval.
IntervalTick ==
    /\ now < MaxTimerIntervals * IntervalSeconds
    /\ now' = ((now \div IntervalSeconds) + 1) * IntervalSeconds
    /\ UNCHANGED <<store, call, ret, botVars, schedVars>>

\* A user sends |update again after an earlier one has been answered.
UpdateCommandAgain(t) ==
    /\ t \in UpdateTasks
    /\ tasks[t].pc = "done"
    /\ tasks' = [tasks EXCEPT ![t] = Frame("ready", TRUE)]
    /\ UNCHANGED <<dbVars, call, ret, botVars, last_auto_fetch, last_manual_fetch,
                   apscheduler, running>>

TimerInit ==
    /\ store = <<>>
    /\ now = 0
    /\ call = NoCall
    /\ ret = NoRet
    /\ BotAtStart
    /\ SchedulerAtStart

\* The coroutines followed here: the job and one |update command at a
\* time (a later command reuses the place of an answered one).
TimerUpdates == { CHOOSE t \in UpdateTasks : \A u \in UpdateTasks : t <= u }
TimerTasks == {JobTask} \cup TimerUpdates

TimerNext ==
    \/ start_scheduler
    \/ TimerFires
    \/ RunJob
    \/ JobReturns
    \/ \E t \in TimerUpdates : UpdateCommand(t)
    \/ \E t \in TimerUpdates : UpdateCommandAgain(t)
    \/ \E t \in TimerUpdates : update_news(t)
    \/ \E t \in TimerUpdates : manual_fetch(t)
    \/ \E t \in TimerUpdates : UpdateReplies(t)
    \/ \E t \in TimerTasks : Guard(t)
    \/ \E t \in TimerTasks, all_articles \in TimerFeeds : Fetch(t, all_articles)
    \/ \E t \in TimerTasks : Dedup(t)
    \/ \E t \in TimerTasks : Select(t)
    \/ \E t \in TimerTasks : \E llm \in LlmRuns(Len(tasks[t].selected_articles)) :
          Analyze(t, llm)
    \/ \E t \in TimerTasks : Store(t)
    \/ \E t \in TimerTasks : Stamp(t)
    \/ BusyTick
    \/ IntervalTick

TimerSpec == TimerInit /\ [][TimerNext]_vars

Recent(stamp) == stamp # NoTime /\ now - stamp < IntervalSeconds

\* C11: a forced cycle always goes from the guard to the fetch stage,
\* whatever last_auto_fetch and last_manual_fetch are, and every cycle an
\* |update command runs is forced.
C11_ManualFetchBypassesGuard ==
    /\ [][\A t \in TaskIds :
            (Guard(t) /\ tasks[t].force) => tasks'[t].pc = "fetch"]_vars
    /\ [](\A t \in UpdateTasks : InFlight(t) => tasks[t].force)

\* C11 witness: a forced cycle is at its fetch stage less than an interval
\* after an automatic and a manual cycle were stamped.
C11_Witness ==
    \E t \in UpdateTasks :
        /\ tasks[t].pc = "fetch"
        /\ tasks[t].force
        /\ Recent(last_auto_fetch)
        /\ Recent(last_manual_fetch)

\* C12: an automatic cycle whose guard runs less than an interval after
\* last_auto_fetch returns at once: it fetches, analyzes and stores nothing
\* and leaves both stamps as they were, up to and including its return.
C12_SkippedCycleChangesNothing ==
    /\ [][\A t \in TaskIds :
            (Guard(t) /\ ~tasks[t].force /\ Recent(last_auto_fetch))
               => /\ tasks'[t] = [tasks[t] EXCEPT !.pc = "return"]
                  /\ tasks'[t].articles = <<>>
                  /\ tasks'[t].analyzed_articles = <<>>
                  /\ UNCHANGED <<store, last_auto_fetch, last_manual_fetch>>]_vars
    /\ [][JobReturns => UNCHANGED <<store, last_auto_fetch, last_manual_fetch>>]_vars

\* C12 witness: the job's cycle has been skipped by the guard, less than an
\* interval after the last stamped automatic cycle, and is about to return.
C12_Witness ==
    /\ tasks[JobTask].pc = "return"
    /\ running = JobTask
    /\ tasks[JobTask].articles = <<>>
    /\ Recent(last_auto_fetch)
    /\ store # <<>>

-----------------------------------------------------------------------------
(* Fetch cycles over a batch that repeats a url, with queries in between *)

\* What the feeds return to one fetch here: two CNN items, or the first of
\* them twice (once more from NewsAPI) and then the second.
BatchFeeds ==
    { FeedPage("CNN", 1, 2),
      FeedPage("CNN", 1, 1) \o FeedPage("CNN", 1, 2) }

\* The free-text queries sent between cycles.
BatchQueries == { <<"r","a","l","l","y">>, <<"x","y","z">> }

BatchInit ==
    /\ store = <<>>
    /\ now = 0
    /\ call = NoCall
    /\ ret = NoRet
    /\ BotAtStart
    /\ SchedulerAtStart

BatchNext ==
    \/ start_scheduler
    \/ TimerFires
    \/ RunJob
    \/ JobReturns
    \/ \E t \in TimerUpdates : UpdateCommand(t)
    \/ \E t \in TimerUpdates : update_news(t)
    \/ \E t \in TimerUpdates : manual_fetch(t)
    \/ \E t \in TimerUpdates : UpdateReplies(t)
    \/ \E t \in TimerTasks : Guard(t)
    \/ \E t \in TimerTasks, all_articles \in BatchFeeds : Fetch(t, all_articles)
    \/ \E t \in TimerTasks : Dedup(t)
    \/ \E t \in TimerTasks : Select(t)
    \/ \E t \in TimerTasks : \E llm \in LlmRuns(Len(tasks[t].selected_articles)) :
          Analyze(t, llm)
    \/ \E t \in TimerTasks : Store(t)
    \/ \E t \in TimerTasks : Stamp(t)
    \/ \E n \in {1, MaxLimit} : running = NoTask /\ GetRecent(n)
    \/ \E q \in BatchQueries : running = NoTask /\ Search(q, MaxLimit)

BatchSpec == BatchInit /\ [][BatchNext]_vars

\* C13: an insert that fails in the store loop neither undoes nor ends the
\* cycle: every row stored before the turn is still there, the loop moves
\* on to the next article, and when the loop is over every article of the
\* batch has its url in the store.
C13_StoreFailureDoesNotAbort ==
    /\ [][\A t \in TaskIds :
            Store(t) =>
               LET f == tasks[t]
               IN  /\ \A k \in DOMAIN store : k \in DOMAIN store' /\ store'[k] = store[k]
                   /\ tasks'[t].i = f.i + 1
                   /\ tasks'[t].pc = IF f.i < Len(f.analyzed_articles) THEN "store"
                                     ELSE "stamp"
                   /\ f.analyzed_articles[f.i].url \in UrlsOf(store')]_vars
    /\ [](\A t \in TaskIds :
            tasks[t].pc = "stamp" => UrlsOf(tasks[t].analyzed_articles) \subseteq StoredUrls)

\* C13 witness: a batch [A, A, B] has been through the store loop: the
\* second A was refused, A and B are stored.
C13_Witness ==
    \E t \in TaskIds :
        /\ tasks[t].pc = "stamp"
        /\ Len(tasks[t].analyzed_articles) = 3
        /\ tasks[t].analyzed_articles[1].url = tasks[t].analyzed_articles[2].url
        /\ tasks[t].stored_count = 2
        /\ StoredUrls = {Url("cnn.com", 1), Url("cnn.com", 2)}

\* C14: no step changes or removes a stored row, so every article keeps
\* the id and the field values it was inserted with, and no two rows have
\* the same id.
C14_StoredRowsNeverChange ==
    /\ [][\A k \in DOMAIN store : k \in DOMAIN store' /\ store'[k] = store[k]]_vars
    /\ [](\A i, j \in DOMAIN store : i # j => store[i].id # store[j].id)

\* C14 witness: after a cycle whose batch repeated a url, a query has
\* returned the stored rows, analysis fields included.
C14_Witness ==
    /\ ret.op = "search_articles"
    /\ Len(ret.value) = 2
    /\ \A i \in DOMAIN ret.value :
          \E k \in DOMAIN store : store[k] = ret.value[i] /\ store[k].intent # NULL
    /\ \E t \in TaskIds : Len(tasks[t].analyzed_articles) = 3

\* ---------------------------------------------------------------------------
\* bot.py: on_reaction_add, _update_selection_display and
\* _analyze_selected_articles.  A handler runs on the bot's event loop: it
\* gives the loop away at each awaited Discord call, and the call may raise.
\* ---------------------------------------------------------------------------

\* bot.py:143-146,150: the emojis the handler tells apart; the position of a
\* number emoji in number_emojis is its article index plus one.
CONFIRM_EMOJI == "confirm"
ALL_EMOJI == "fire"
number_emojis == <<"1", "2", "3", "4", "5", "6", "7", "8", "9">>

\* list.index(x) for an x in the list (0-based), list.remove(x) and
\* list(range(n)).
IndexOf(list, x) == (CHOOSE i \in DOMAIN list : list[i] = x) - 1
ListRemove(list, x) ==
    LET first == CHOOSE i \in DOMAIN list :
                    list[i] = x /\ \A j \in 1..(i - 1) : list[j] # x
    IN  [k \in 1..(Len(list) - 1) |-> IF k < first THEN list[k] ELSE list[k + 1]]
ListRange(n) == [k \in 1..n |-> k - 1]

\* bot.py:159-164 with the index appended whether or not it is selected.
ToggleIndex_AlwaysAppends(selected_indices, article_index) ==
    Append(selected_indices, article_index)

\* bot.py:159-164: the toggle of one article index.
ToggleIndex(selected_indices, article_index) ==
    IF article_index \in Range(selected_indices)
    THEN ListRemove(selected_indices, article_index)
    ELSE Append(selected_indices, article_index)

\* bot.py:314 with a delete that leaves the key in the map.
DelSelection_KeepsKey(d, selection_key) == Returns(d)

\* bot.py:314: `del pending_selections[selection_key]`.
DelSelection(d, selection_key) ==
    IF selection_key \in DOMAIN d
    THEN Returns(DictDel(d, {selection_key}))
    ELSE [Raises("KeyError") EXCEPT !.value = d]

\* The first coroutine frame that is free.
FreeHandler(h) ==
    /\ handlers[h].pc = "idle"
    /\ \A g \in HandlerIds : g < h => handlers[g].pc # "idle"

\* The handler has returned (or its exception was logged at bot.py:174-175).
HandlerFinishes(h, outcome) ==
    /\ handlers' = [handlers EXCEPT ![h] = IdleHandler]
    /\ ret' = [op |-> "on_reaction_add",
               selection_key |-> handlers[h].selection_key,
               emoji |-> handlers[h].emoji,
               outcome |-> outcome]

HandlerGoto(h, pc, outcome) ==
    handlers' = [handlers EXCEPT ![h].pc = pc, ![h].outcome = outcome]

\* bot.py:129-166 and 225-243: the handler from the reaction event to its
\* first awaited call.  A reaction on a message that has no selection of this
\* user returns at once.
ReactionAdded(h, message_id, user, emoji) ==
    /\ FreeHandler(h)
    /\ LET selection_key == SelectionKey(Channel, message_id, user)
           Enter(pc, selected_articles) ==
               handlers' = [handlers EXCEPT ![h] =
                   HandlerFrame(pc, selection_key, emoji, selected_articles, "none")]
       IN  IF selection_key \notin DOMAIN pending_selections
           THEN UNCHANGED <<pending_selections, handlers>>
           ELSE LET selection_data == pending_selections[selection_key]
                    selected_indices == selection_data.selected_indices
                    n == Len(selection_data.articles)
                IN  IF emoji = CONFIRM_EMOJI
                    THEN /\ UNCHANGED pending_selections
                         /\ IF selected_indices = <<>>
                            THEN Enter("notice", <<>>)
                            ELSE Enter("clearing",
                                       [k \in DOMAIN selected_indices |->
                                          selection_data.articles[selected_indices[k] + 1]])
                    ELSE IF emoji = ALL_EMOJI
                    THEN /\ pending_selections' =
                              [pending_selections EXCEPT
                                 ![selection_key].selected_indices = ListRange(n)]
                         /\ Enter("display", <<>>)
                    ELSE IF emoji \in Range(number_emojis)
                            /\ IndexOf(number_emojis, emoji) < n
                    THEN /\ pending_selections' =
                              [pending_selections EXCEPT
                                 ![selection_key].selected_indices =
                                    ToggleIndex(selected_indices,
                                                IndexOf(number_emojis, emoji))]
                         /\ Enter("display", <<>>)
                    ELSE /\ UNCHANGED pending_selections
                         /\ Enter("removing", <<>>)
    /\ UNCHANGED <<dbVars, call, ret, next_message_id, next_sweep, schedVars>>

\* bot.py:236-237: the "No Articles Selected" edit has been made or has
\* raised; the key stays in the map either way.
NoticeShown(h, ok) ==
    /\ handlers[h].pc = "notice"
    /\ IF ok
       THEN HandlerGoto(h, "removing", "nothing_selected") /\ UNCHANGED ret
       ELSE HandlerFinishes(h, "call_failed")
    /\ UNCHANGED <<dbVars, call, pending_selections, next_message_id, next_sweep,
                   schedVars>>

\* bot.py:243: clear_reactions has returned or raised.
ReactionsCleared(h, ok) ==
    /\ handlers[h].pc = "clearing"
    /\ IF ok
       THEN HandlerGoto(h, "analyzing", "none") /\ UNCHANGED ret
       ELSE HandlerFinishes(h, "call_failed")
    /\ UNCHANGED <<dbVars, call, pending_selections, next_message_id, next_sweep,
                   schedVars>>

\* bot.py:250-309: the "Analyzing" edit has returned or raised; the analysis
\* text is then built without giving the loop away (summarizer.py:158-222
\* returns text on every path).
AnalyzingShown(h, ok) ==
    /\ handlers[h].pc = "analyzing"
    /\ IF ok
       THEN HandlerGoto(h, "result", "none") /\ UNCHANGED ret
       ELSE HandlerFinishes(h, "call_failed")
    /\ UNCHANGED <<dbVars, call, pending_selections, next_message_id, next_sweep,
                   schedVars>>

\* bot.py:311-314: the edit that shows the analysis has returned or raised;
\* after it the key is deleted, and a key that is gone by then raises
\* KeyError into the handler's except clause.
ResultShown(h, ok) ==
    /\ handlers[h].pc = "result"
    /\ IF ok
       THEN LET deleted == DelSelection(pending_selections, handlers[h].selection_key)
            IN  /\ pending_selections' = deleted.value
                /\ IF deleted.raised = "none"
                   THEN HandlerGoto(h, "removing", "deleted") /\ UNCHANGED ret
                   ELSE HandlerFinishes(h, "key_error")
       ELSE HandlerFinishes(h, "call_failed") /\ UNCHANGED pending_selections
    /\ UNCHANGED <<dbVars, call, next_message_id, next_sweep, schedVars>>

\* bot.py:223: the edit of _update_selection_display has returned or raised.
DisplayShown(h, ok) ==
    /\ handlers[h].pc = "display"
    /\ IF ok
       THEN HandlerGoto(h, "removing", "toggled") /\ UNCHANGED ret
       ELSE HandlerFinishes(h, "call_failed")
    /\ UNCHANGED <<dbVars, call, pending_selections, next_message_id, next_sweep,
                   schedVars>>

\* bot.py:169-172: reaction.remove has returned, or raised and was ignored.
ReactionRemoved(h) ==
    /\ handlers[h].pc = "removing"
    /\ HandlerFinishes(h, handlers[h].outcome)
    /\ UNCHANGED <<dbVars, call, pending_selections, next_message_id, next_sweep,
                   schedVars>>

\* ---------------------------------------------------------------------------
\* Confirm specification: one user asks for news, users react on the
\* selection messages, the sweep runs and minutes pass.
\* ---------------------------------------------------------------------------

ReactingUsers == {"alice", "bob"}
ReactionEmojis == {CONFIRM_EMOJI, ALL_EMOJI, "1", "3"}

\* Bound: the sweep periods that pass.
MaxConfirmSweeps == 1

\* A sweep period and a minute pass, so that a selection made before is older
\* than SELECTION_TTL at the next pass of the sweep.
ConfirmTick ==
    /\ now < MaxConfirmSweeps * (SWEEP_SLEEP + SECONDS_PER_MINUTE)
    /\ now' = now + SWEEP_SLEEP + SECONDS_PER_MINUTE
    /\ UNCHANGED <<store, call, ret, botVars, schedVars>>

ConfirmInit == SweepInit

\* One selection message is asked for, and every reaction is on it.
ConfirmNext ==
    \/ \E u \in SweepUsers : next_message_id = 1 /\ fetch_news(u, None)
    \/ \E h \in HandlerIds, u \in ReactingUsers, e \in ReactionEmojis :
          ReactionAdded(h, 1, u, e)
    \/ \E h \in HandlerIds, ok \in BOOLEAN : NoticeShown(h, ok)
    \/ \E h \in HandlerIds, ok \in BOOLEAN : ReactionsCleared(h, ok)
    \/ \E h \in HandlerIds, ok \in BOOLEAN : AnalyzingShown(h, ok)
    \/ \E h \in HandlerIds, ok \in BOOLEAN : ResultShown(h, ok)
    \/ \E h \in HandlerIds, ok \in BOOLEAN : DisplayShown(h, ok)
    \/ \E h \in HandlerIds : ReactionRemoved(h)
    \/ cleanup_old_selections
    \/ ConfirmTick

ConfirmSpec == ConfirmInit /\ [][ConfirmNext]_vars

\* The handler h takes a step of a confirmation; it finishes with the outcome.
ConfirmStep(h) ==
    /\ handlers'[h] # handlers[h]
    /\ CONFIRM_EMOJI \in {handlers[h].emoji, handlers'[h].emoji}
ConfirmFinishes(h, outcomes) ==
    /\ handlers[h].emoji = CONFIRM_EMOJI
    /\ handlers'[h].pc = "idle"
    /\ ret'.op = "on_reaction_add"
    /\ ret'.outcome \in outcomes

\* C15 as stated: once the handler of a confirmation by the owner of a
\* pending selection has finished, the key is not in the pending-selection
\* map.
C15_EveryConfirmationDestroysKey ==
    (ret.op = "on_reaction_add" /\ ret.emoji = CONFIRM_EMOJI)
        => ret.selection_key \notin DOMAIN pending_selections

\* C15 amended: a confirmation by the owner with at least one article
\* selected, whose clear_reactions call and two message edits succeed, leaves
\* the key out of the map when its handler finishes; the key is removed by the
\* step after the last edit and by no other step of the handler, so a
\* confirmation with nothing selected, or one whose Discord call raises,
\* leaves the map as it is.
C15_ConfirmationDestroysKeyAfterLastEdit ==
    [][\A h \in HandlerIds :
         ConfirmStep(h) =>
            /\ ConfirmFinishes(h, {"deleted", "key_error"})
                  => handlers[h].selection_key \notin DOMAIN pending_selections'
            /\ ConfirmFinishes(h, {"nothing_selected", "call_failed"})
                  => pending_selections' = pending_selections
            /\ (handlers[h].pc = "result" /\ handlers'[h].pc = "removing")
                  => /\ handlers[h].selection_key \in DOMAIN pending_selections
                     /\ pending_selections' =
                          DictDel(pending_selections, {handlers[h].selection_key})
            /\ ~(handlers[h].pc = "result" /\ handlers'[h].pc = "removing")
                  => pending_selections' = pending_selections]_vars

\* C15 witness: a confirmation with an article selected has finished after its
\* last edit and the key is gone, with no sweep having removed it.
C15_Witness ==
    /\ ret.op = "on_reaction_add"
    /\ ret.emoji = CONFIRM_EMOJI
    /\ ret.outcome = "deleted"
    /\ ret.selection_key \notin DOMAIN pending_selections
    /\ now = 0

\* ---------------------------------------------------------------------------
\* responder.py: ConversationalResponder.handle_mention and what it calls.
\* ---------------------------------------------------------------------------

\* responder.py:17-21
news_keywords ==
    {
      <<"n","e","w","s">>, <<"a","r","t","i","c","l","e">>,
      <<"s","t","o","r","y">>, <<"r","e","p","o","r","t">>,
      <<"b","r","e","a","k","i","n","g">>, <<"l","a","t","e","s","t">>,
      <<"p","o","l","i","t","i","c","s">>,
      <<"t","e","c","h","n","o","l","o","g","y">>,
      <<"e","c","o","n","o","m","y">>, <<"s","p","o","r","t","s">>,
      <<"h","e","a","l","t","h">>, <<"s","c","i","e","n","c","e">>,
      <<"b","u","s","i","n","e","s","s">>,
      <<"e","n","t","e","r","t","a","i","n","m","e","n","t">>,
      <<"w","o","r","l","d">>, <<"l","o","c","a","l">> }

\* str.lower() on the characters the model uses.
Lower(text) == [i \in DOMAIN text |-> AsciiLower(text[i])]

\* `keyword in message_lower` for some keyword (responder.py:23-26).
is_news_related(message) ==
    \E keyword \in news_keywords : ContainsIgnoreCase(Lower(message), keyword)

\* responder.py:31
stop_words ==
    {
      <<"w","h","a","t">>, <<"i","s">>, <<"t","h","e">>, <<"a">>, <<"a","n">>,
      <<"a","n","d">>, <<"o","r">>, <<"b","u","t">>, <<"i","n">>, <<"o","n">>,
      <<"a","t">>, <<"t","o">>, <<"f","o","r">>, <<"o","f">>,
      <<"w","i","t","h">>, <<"b","y">> }

\* The characters \w matches, among those the model uses.
IsWordChar(c) ==
    \/ c \in Range(LowerCase) \cup Range(UpperCase) \cup Range(DecimalDigits)
    \/ c = "_"

\* re.findall(r'\b\w+\b', text): the maximal runs of word characters.
RECURSIVE WordRuns(_)
WordRuns(text) ==
    IF text = <<>> THEN <<>>
    ELSE IF ~IsWordChar(Head(text)) THEN WordRuns(Tail(text))
    ELSE LET stops == {i \in DOMAIN text : ~IsWordChar(text[i])}
             end == IF stops = {} THEN Len(text) + 1
                    ELSE CHOOSE i \in stops : \A j \in stops : i <= j
         IN  <<SubSeq(text, 1, end - 1)>> \o WordRuns(SubSeq(text, end, Len(text)))

\* responder.py:37
MIN_TERM_LENGTH == 3
MAX_SEARCH_TERMS == 5

\* responder.py:28-37
extract_search_terms(message) ==
    Take(SelectSeq(WordRuns(Lower(message)),
                   LAMBDA word : word \notin stop_words /\ Len(word) >= MIN_TERM_LENGTH),
         MAX_SEARCH_TERMS)

\* responder.py:55 and 65 call NewsDatabase.get_all_article_titles and
\* NewsDatabase.get_articles_by_ids; the class (database.py:9-128) defines
\* neither, so the attribute lookup raises.
get_all_article_titles(rows, limit) == Raises("AttributeError")
get_articles_by_ids(rows, article_ids) == Raises("AttributeError")

\* responder.py:58 and 60, 79, 93, 109
MENTION_TITLES_LIMIT == 100
MENTION_MAX_ARTICLES == 5
TERM_SEARCH_LIMIT == 2
MENTION_UNIQUE_MAX == 3
MENTION_RECENT_LIMIT == 3

\* summarizer.py:120 (generate_response shows at most three articles)
RESPONSE_ARTICLES_MAX == 3

\* The text of the apology (summarizer.py:164 and 449, responder.py:117 use
\* the same sentence) and of a reply the LLM wrote.
T_Apology == "I'm sorry, I'm having trouble processing your request right now. Please try again later!"
T_Generated == "<generated>"

\* summarizer.py:110-164: the reply of the LLM grounded in at most three of the
\* articles, or the apology when anything raises.
generate_response(relevant_articles, llm_ok) ==
    IF llm_ok
    THEN [text |-> T_Generated, articles |-> Take(relevant_articles, RESPONSE_ARTICLES_MAX)]
    ELSE [text |-> T_Apology, articles |-> <<>>]

\* summarizer.py:334-449: the same over all the selected articles.
generate_response_with_selected_articles(selected_articles, llm_ok) ==
    IF llm_ok
    THEN [text |-> T_Generated, articles |-> selected_articles]
    ELSE [text |-> T_Apology, articles |-> <<>>]

\* responder.py:77-80 and 106-109: the searches of the terms in turn, their
\* results appended; a failing database makes the first search raise.
RECURSIVE SearchTerms(_, _, _)
SearchTerms(rows, terms, db_ok) ==
    IF terms = <<>> THEN { Returns(<<>>) }
    ELSE IF ~db_ok THEN { Raises("OperationalError") }
    ELSE { Returns(first \o rest.value) :
             first \in search_articles(rows, Head(terms), TERM_SEARCH_LIMIT),
             rest \in SearchTerms(rows, Tail(terms), db_ok) }

\* responder.py:83-88: the first article of each url, in order.
UniqueByUrl(articles) ==
    SelectSeq([i \in DOMAIN articles |->
                 [article |-> articles[i],
                  first |-> \A j \in 1..(i - 1) : articles[j].url # articles[i].url]],
              LAMBDA e : e.first)

\* responder.py:100-113 with an except clause that raises the error again.
ExceptFallback_Reraises(message, rows, db_ok) == { Raises("AttributeError") }

\* responder.py:100-111: the except clause of the selection block: the
\* articles of the keyword searches, duplicates and all.
ExceptFallback(message, rows, db_ok) ==
    SearchTerms(rows, extract_search_terms(message), db_ok)

\* responder.py:73-95: the keyword search after a selection that gave no ids.
KeywordFallback(message, rows, db_ok) ==
    LET found == SearchTerms(rows, extract_search_terms(message), db_ok)
    IN  UNION { IF f.raised # "none" THEN { f }
                ELSE LET unique == UniqueByUrl(f.value)
                         relevant_articles ==
                             Take([i \in DOMAIN unique |-> unique[i].article],
                                  MENTION_UNIQUE_MAX)
                     IN  IF relevant_articles = <<>> /\ is_news_related(message)
                         THEN IF db_ok
                              THEN { Returns(r) :
                                       r \in get_recent_articles(rows, MENTION_RECENT_LIMIT) }
                              ELSE { Raises("OperationalError") }
                         ELSE { Returns(relevant_articles) } :
                f \in found }

\* responder.py:39-117: the outcomes of handle_mention: the path taken and
\* the text returned.  sel_llm is the LLM's answer to the selection prompt,
\* llm_ok whether the LLM answers the response prompt, db_ok whether the
\* database answers the searches.
handle_mention(message, rows, sel_llm, llm_ok, db_ok) ==
    LET Apology(path) == [path |-> path, raised |-> "none",
                          reply |-> [text |-> T_Apology, articles |-> <<>>]]
        Reply(path, reply) == [path |-> path, raised |-> "none", reply |-> reply]
        Generated(path, found) ==
            { IF f.raised # "none" THEN Apology("outer_except")
              ELSE Reply(path, generate_response(f.value, llm_ok)) : f \in found }
        Excepted == Generated("except_fallback", ExceptFallback(message, rows, db_ok))
        all_article_titles == get_all_article_titles(rows, MENTION_TITLES_LIMIT)
    IN  IF all_article_titles.raised # "none" THEN Excepted
        ELSE LET selected_article_ids ==
                     IF all_article_titles.value = <<>> THEN <<>>
                     ELSE select_relevant_articles(all_article_titles.value,
                                                   MENTION_MAX_ARTICLES, sel_llm).value
             IN  IF selected_article_ids # <<>>
                 THEN LET selected_articles == get_articles_by_ids(rows, selected_article_ids)
                      IN  IF selected_articles.raised # "none" THEN Excepted
                          ELSE { Reply("selected",
                                       generate_response_with_selected_articles(
                                           selected_articles.value, llm_ok)) }
                 ELSE Generated("keyword_fallback", KeywordFallback(message, rows, db_ok))

\* ---------------------------------------------------------------------------
\* Mention specification: a store of articles and the mentions handled over it.
\* ---------------------------------------------------------------------------

M_RallyPoll == <<"r","a","l","l","y"," ","p","o","l","l">>
M_Hi == <<"h","i">>
M_TheNews == <<"W","h","a","t"," ","i","s"," ","t","h","e"," ","n","e","w","s","?">>
M_Xyz == <<"x","y","z","?">>

Mentions == {M_RallyPoll, M_Hi, M_TheNews, M_Xyz}

SelectionReplies ==
    { [kind |-> "reply", content |-> <<"1">>],
      [kind |-> "reply", content |-> <<"N", "O", "N", "E">>] }

\* The stores of up to MaxSearchRows articles inserted within one second.
MentionStores ==
    { st \in SearchStores : \A i \in DOMAIN st : st[i].created_at = 0 }

\* A mention is handled from the message to the reply (bot.py:114).
MentionHandled(message, sel_llm, llm_ok, db_ok) ==
    /\ \E out \in handle_mention(message, store, sel_llm, llm_ok, db_ok) :
          ret' = [op |-> "handle_mention", message |-> message, llm_ok |-> llm_ok,
                  db_ok |-> db_ok, path |-> out.path, raised |-> out.raised,
                  reply |-> out.reply]
    /\ UNCHANGED <<dbVars, call, botVars, schedVars>>

MentionInit ==
    /\ store \in MentionStores
    /\ now = 1
    /\ call = NoCall
    /\ ret = NoRet
    /\ BotAtStart
    /\ SchedulerAtStart

MentionNext ==
    \E m \in Mentions, sel_llm \in SelectionReplies, llm_ok \in BOOLEAN,
       db_ok \in BOOLEAN : MentionHandled(m, sel_llm, llm_ok, db_ok)

MentionSpec == MentionInit /\ [][MentionNext]_vars

\* The rows some search term of the message matches.
MatchedByTerm(row, message) ==
    \E i \in DOMAIN extract_search_terms(message) :
       SearchWhere(row, extract_search_terms(message)[i])

\* C16: handle_mention never raises; when no article ids come out of the
\* selection step it answers from the keyword searches over the stored
\* articles, and it returns generated text, not the apology, whenever the
\* searches and the LLM call of the response succeed.
C16_NoIdsFallsBackToKeywordSearch ==
    (ret.op = "handle_mention" /\ ret.path # "selected")
        => /\ ret.raised = "none"
           /\ (ret.llm_ok /\ ret.db_ok)
                 => /\ ret.path \in {"keyword_fallback", "except_fallback"}
                    /\ ret.reply.text = T_Generated
           /\ \A i \in DOMAIN ret.reply.articles :
                 \E k \in DOMAIN store :
                    /\ ret.reply.articles[i] = store[k]
                    /\ \/ MatchedByTerm(store[k], ret.message)
                       \/ ret.path = "keyword_fallback"
           /\ (ret.llm_ok /\ ret.db_ok
                 /\ \E k \in DOMAIN store : MatchedByTerm(store[k], ret.message))
                 => ret.reply.articles # <<>>

\* C16 witness: the selection step has failed, the keyword searches of
\* "rally poll" have found stored articles and the reply is generated text
\* grounded in them.
C16_Witness ==
    /\ ret.op = "handle_mention"
    /\ ret.path = "except_fallback"
    /\ ret.message = M_RallyPoll
    /\ ret.reply.text = T_Generated
    /\ Len(ret.reply.articles) >= 2
    /\ \A i \in DOMAIN ret.reply.articles :
          MatchedByTerm(ret.reply.articles[i], ret.message)

\* ---------------------------------------------------------------------------
\* news_fetcher.py: NewsFetcher._extract_source_from_url
\* ---------------------------------------------------------------------------

\* news_fetcher.py:270-289: source_mappings, in the order the dict is written.
source_mappings ==
    <<
      [key |-> <<"c","n","n",".","c","o","m">>,
       source_name |-> <<"C","N","N">>],
      [key |-> <<"f","o","x","n","e","w","s",".","c","o","m">>,
       source_name |-> <<"F","o","x"," ","N","e","w","s">>],
      [key |-> <<"m","o","x","i","e",".","f","o","x","n","e","w","s",".","c","o","m">>,
       source_name |-> <<"F","o","x"," ","N","e","w","s">>],
      [key |-> <<"r","e","u","t","e","r","s",".","c","o","m">>,
       source_name |-> <<"R","e","u","t","e","r","s">>],
      [key |-> <<"b","b","c",".","c","o",".","u","k">>,
       source_name |-> <<"B","B","C">>],
      [key |-> <<"n","y","t","i","m","e","s",".","c","o","m">>,
       source_name |-> <<"N","e","w"," ","Y","o","r","k"," ","T","i","m","e","s">>],
      [key |-> <<"w","a","s","h","i","n","g","t","o","n","p","o","s","t",".","c","o","m">>,
       source_name |-> <<"W","a","s","h","i","n","g","t","o","n"," ","P","o","s","t">>],
      [key |-> <<"n","b","c","n","e","w","s",".","c","o","m">>,
       source_name |-> <<"N","B","C"," ","N","e","w","s">>],
      [key |-> <<"a","b","c","n","e","w","s",".","c","o","m">>,
       source_name |-> <<"A","B","C"," ","N","e","w","s">>],
      [key |-> <<"n","p","r",".","o","r","g">>,
       source_name |-> <<"N","P","R">>],
      [key |-> <<"n","y","p","o","s","t",".","c","o","m">>,
       source_name |-> <<"N","e","w"," ","Y","o","r","k"," ","P","o","s","t">>],
      [key |-> <<"j","p","o","s","t",".","c","o","m">>,
       source_name |-> <<"J","e","r","u","s","a","l","e","m"," ","P","o","s","t">>],
      [key |-> <<"t","e","h","r","a","n","t","i","m","e","s",".","c","o","m">>,
       source_name |-> <<"T","e","h","r","a","n"," ","T","i","m","e","s">>],
      [key |-> <<"a","l","j","a","z","e","e","r","a",".","c","o","m">>,
       source_name |-> <<"A","l"," ","J","a","z","e","e","r","a">>],
      [key |-> <<"t","i","m","e","s","o","f","i","n","d","i","a",".","i","n","d","i","a","t","i","m","e","s",".","c","o","m">>,
       source_name |-> <<"T","i","m","e","s"," ","o","f"," ","I","n","d","i","a">>],
      [key |-> <<"s","c","m","p",".","c","o","m">>,
       source_name |-> <<"S","o","u","t","h"," ","C","h","i","n","a"," ","M","o","r","n","i","n","g"," ","P","o","s","t">>],
      [key |-> <<"r","t",".","c","o","m">>,
       source_name |-> <<"R","T"," ","N","e","w","s">>],
      [key |-> <<"a","l","a","r","a","b","i","y","a",".","n","e","t">>,
       source_name |-> <<"A","l"," ","A","r","a","b","i","y","a">>] >>

T_UnknownSource == <<"U","n","k","n","o","w","n">>

\* `old in text`
Contains(text, old) ==
    \E k \in 0..(Len(text) - Len(old)) : SubSeq(text, k + 1, k + Len(old)) = old

\* str.title(): a letter after a letter is lowered, any other letter raised.
IsLetter(c) == c \in Range(LowerCase) \cup Range(UpperCase)
Title(text) ==
    [i \in DOMAIN text |->
        IF i > 1 /\ IsLetter(text[i - 1]) THEN AsciiLower(text[i])
        ELSE AsciiUpper(text[i])]

\* news_fetcher.py:266-298: the body of the try block.
ExtractSourceBody(url) ==
    LET parts == Split(url, "/")
    IN  IF Len(parts) < 3 THEN Raises("IndexError")
        ELSE LET domain == Lower(parts[3])
                 hits == {i \in DOMAIN source_mappings :
                            Contains(domain, source_mappings[i].key)}
             IN  IF hits # {}
                 THEN Returns(source_mappings[CHOOSE i \in hits :
                                                \A j \in hits : i <= j].source_name)
                 ELSE LET clean_domain ==
                              RemoveAll(RemoveAll(domain, <<"w","w","w",".">>), <<"e","n","g","l","i","s","h",".">>)
                      IN  Returns(Title(Split(clean_domain, ".")[1]))

\* news_fetcher.py:264-302: 'Unknown' when the body raises.
extract_source_from_url(url) ==
    LET out == ExtractSourceBody(url)
    IN  IF out.raised # "none" THEN Returns(T_UnknownSource) ELSE out

\* ---------------------------------------------------------------------------
\* Source-name specification: the function applied to urls of feeds and to
\* every short string over the characters that steer it.
\* ---------------------------------------------------------------------------

\* Bound: the length of the enumerated strings.
MaxUrlLen == 4

UrlAlphabet == {"/", ".", "a", "W"}

UrlInputs ==
    UNION { [1..n -> UrlAlphabet] : n \in 0..MaxUrlLen }
    \cup {
      <<"h","t","t","p","s",":","/","/","w","w","w",".","c","n","n",".","c","o","m","/","r","s","s">>,
      <<"h","t","t","p",":","/","/","f","e","e","d","s",".","b","b","c","i",".","c","o",".","u","k","/","n","e","w","s">>,
      <<"h","t","t","p","s",":","/","/","e","n","g","l","i","s","h",".","n","e","w","s",".","c","n","/","a">>,
      <<"h","t","t","p","s",":","/","/","m","y","-","s","i","t","e",".","o","r","g">>,
      <<"h","t","t","p",":","/","/","/","f","e","e","d">>,
      <<"h","t","t","p","s",":","/","/","w","w","w",".","/","x">>,
      <<"n","o","h","o","s","t","/","p","a","t","h">>,
      <<"h","t","t","p","s",":","/","/","S","u","p","p","o","r","t",".","c","o","m","/","a">> }

ApplyExtractSource ==
    /\ call.fn = "_extract_source_from_url"
    /\ ret = NoRet
    /\ LET out == extract_source_from_url(call.url)
       IN  ret' = [op |-> "_extract_source_from_url", raised |-> out.raised,
                   value |-> out.value]
    /\ UNCHANGED <<dbVars, call, botVars, schedVars>>

SourceNameInit ==
    /\ store = <<>>
    /\ now = 0
    /\ call \in { [fn |-> "_extract_source_from_url", url |-> u] : u \in UrlInputs }
    /\ ret = NoRet
    /\ BotAtStart
    /\ SchedulerAtStart

SourceNameNext == ApplyExtractSource

SourceNameSpec == SourceNameInit /\ [][SourceNameNext]_vars

\* C17: for every input string _extract_source_from_url raises nothing and
\* returns a source name that is not empty.
C17_SourceNameNeverEmpty ==
    ret.op = "_extract_source_from_url"
        => /\ ret.raised = "none"
           /\ ret.value # <<>>

\* ---------------------------------------------------------------------------
\* Batch-analysis specification: batch_analyze_articles applied to short
\* lists of articles, each chat completion answering or failing.
\* ---------------------------------------------------------------------------

\* Bound: the length of the batch.
MaxBatchLen == 3

\* A fetched article, one whose full_text is None, and a dict with no summary.
BatchArticles ==
    { FetchedArticle(T_Markets, Url("cnn.com", 1), "CNN", T_Poll),
      [FetchedArticle(T_Election, Url("cnn.com", 2), "CNN", <<>>)
          EXCEPT !.full_text = NULL],
      [title |-> T_Poll, url |-> Url("bbc.co.uk", 1), source |-> "BBC"] }

BatchLlmOutcomes ==
    { [kind |-> "error"],
      [kind |-> "reply", content |-> R_Full],
      [kind |-> "reply", content |-> R_Prose] }

BatchCalls ==
    UNION { { [fn |-> "batch_analyze_articles", articles |-> a, llm |-> l] :
                a \in [1..n -> BatchArticles], l \in [1..n -> BatchLlmOutcomes] } :
            n \in 0..MaxBatchLen }

ApplyBatchAnalyze ==
    /\ call.fn = "batch_analyze_articles"
    /\ ret = NoRet
    /\ ret' = [op |-> "batch_analyze_articles", raised |-> "none",
               value |-> batch_analyze_articles(call.articles, call.llm)]
    /\ UNCHANGED <<dbVars, call, botVars, schedVars>>

BatchAnalyzeInit ==
    /\ store = <<>>
    /\ now = 0
    /\ call \in BatchCalls
    /\ ret = NoRet
    /\ BotAtStart
    /\ SchedulerAtStart

BatchAnalyzeNext == ApplyBatchAnalyze

BatchAnalyzeSpec == BatchAnalyzeInit /\ [][BatchAnalyzeNext]_vars

\* The analysis of article i fails: its full_text is None, the chat
\* completion raises, or the reply has no content.
AnalysisFails(i) ==
    \/ DictGet(call.articles[i], "full_text", <<>>) = NULL
    \/ call.llm[i].kind = "error"
    \/ call.llm[i].content = NULL

\* C18: batch_analyze_articles returns as many elements as it was given
\* articles, and element i is the analysis of article i: the article's own
\* fields with the summary, intent and emotion parsed from the i-th reply, or
\* with intent "Unknown" and emotion "Neutral" when the analysis of article i
\* fails, whatever happens to the other articles.
C18_BatchKeepsLengthAndOrder ==
    ret.op = "batch_analyze_articles"
        => /\ ret.raised = "none"
           /\ Len(ret.value) = Len(call.articles)
           /\ \A i \in 1..Len(call.articles) :
                 LET article == call.articles[i]
                     analyzed == ret.value[i]
                 IN  /\ \A k \in DOMAIN article \ {"summary", "intent", "emotion"} :
                           k \in DOMAIN analyzed /\ analyzed[k] = article[k]
                     /\ IF AnalysisFails(i)
                        THEN /\ analyzed.intent = T_Unknown
                             /\ analyzed.emotion = T_Neutral
                             /\ analyzed.summary =
                                  DictGet(article, "summary", T_SummaryUnavailable)
                        ELSE analyzed = parse_analysis(call.llm[i].content, article)

\* C18 witness: a batch of three in which the first chat completion fails and
\* the second answers in full has come back with three elements, the first
\* degraded and the second analysed.
C18_Witness ==
    /\ ret.op = "batch_analyze_articles"
    /\ Len(call.articles) = 3
    /\ Len(ret.value) = 3
    /\ call.llm[1].kind = "error"
    /\ call.llm[2] = [kind |-> "reply", content |-> R_Full]
    /\ call.articles[2].url = Url("cnn.com", 1)
    /\ ret.value[1].intent = T_Unknown
    /\ ret.value[2].intent = <<"w", "a", "r", "n">>
    /\ ret.value[2].url = Url("cnn.com", 1)

\* C19: the count the update command shows as "New articles processed" is
\* the number of new articles its cycle stored, and the command answers
\* "No New Articles" exactly when the cycle stored none.
C19_UpdateCountIsStoredCount ==
    ret.op = "update_news"
        => /\ ret.article_count = ret.stored_count
           /\ (ret.reply = "No New Articles") <=> (ret.stored_count = 0)

\* The run time of the timer firing that started the job's present cycle.
FiringTime == apscheduler.next_run_time - IntervalSeconds

\* C20: automatic fetching happens every interval: when the automatic cycle
\* of one timer firing has stored articles and stamped last_auto_fetch within
\* the interval before the next firing, the cycle that the next firing starts
\* passes the guard and goes on to fetch.
C20_NextFiringRunsACycle ==
    [][(/\ Guard(JobTask)
        /\ last_auto_fetch # NoTime
        /\ FiringTime - IntervalSeconds <= last_auto_fetch
        /\ last_auto_fetch < FiringTime)
          => tasks'[JobTask].pc = "fetch"]_vars

-----------------------------------------------------------------------------
(* Fetch cycles over a feed longer than the cap of its source *)

\* What the feeds return to a fetch here: two or six Al Jazeera items, or the
\* six behind two CNN items.
CapFeeds ==
    { FeedPage("Al Jazeera", 1, 2),
      FeedPage("Al Jazeera", 1, 6),
      FeedPage("CNN", 1, 2) \o FeedPage("Al Jazeera", 1, 6) }

CapInit == TimerInit

\* One |update command after another, each running a forced cycle.
CapNext ==
    \/ \E t \in TimerUpdates : UpdateCommand(t)
    \/ \E t \in TimerUpdates : UpdateCommandAgain(t)
    \/ \E t \in TimerUpdates : update_news(t)
    \/ \E t \in TimerUpdates : manual_fetch(t)
    \/ \E t \in TimerUpdates : UpdateReplies(t)
    \/ \E t \in TimerUpdates : Guard(t)
    \/ \E t \in TimerUpdates, all_articles \in CapFeeds : Fetch(t, all_articles)
    \/ \E t \in TimerUpdates : Dedup(t)
    \/ \E t \in TimerUpdates : Select(t)
    \/ \E t \in TimerUpdates : \E llm \in LlmRuns(Len(tasks[t].selected_articles)) :
          Analyze(t, llm)
    \/ \E t \in TimerUpdates : Store(t)
    \/ \E t \in TimerUpdates : Stamp(t)

CapSpec == CapInit /\ [][CapNext]_vars

\* What the feeds returned to the fetch of t's cycle.
FetchedBy(t) ==
    CHOOSE all_articles \in CapFeeds : tasks[t].articles \in fetch_all_sources(all_articles)

\* The cap of a source's tier in the selection before storage.
TierCap(source) ==
    IF source \in scheduler_us_sources THEN US_ARTICLES_TO_TAKE
    ELSE INTL_ARTICLES_TO_TAKE

\* C21: the tiered caps are applied to the pool that survives deduplication:
\* for every source, a cycle hands to analysis and storage as many articles
\* as the smaller of the source's cap and the number of fetched articles of
\* that source whose url is not in the store.
C21_CapsApplyToDeduplicatedPool ==
    \A t \in TaskIds :
       (\/ tasks[t].pc = "analyze"
        \/ /\ tasks[t].pc = "return"
           /\ tasks[t].articles # <<>>
           /\ tasks[t].new_articles = <<>>)
          => \A source \in Range(SourcesInOrder(FetchedBy(t))) :
                CountOfSource(tasks[t].selected_articles, source)
                   = Min(Cardinality({ i \in DOMAIN FetchedBy(t) :
                                         /\ SourceOf(FetchedBy(t)[i]) = source
                                         /\ FetchedBy(t)[i].url \notin StoredUrls }),
                         TierCap(source))

\* The candidates the selection prompt is to be built from: id, title and
\* source of every stored article (responder.py:55-61).
StoredTitles(rows) ==
    [k \in DOMAIN rows |-> [id |-> rows[k].id, title |-> rows[k].title,
                            source |-> rows[k].source]]

\* C22: when the store holds articles and relevance selection over them
\* returns a non-empty id list, handle_mention answers through
\* generate_response_with_selected_articles, grounded in exactly the stored
\* articles with the selected ids, and not through keyword search.
C22_SelectedIdsGroundTheAnswer ==
    [][\A m \in Mentions, sel_llm \in SelectionReplies, llm_ok \in BOOLEAN,
          db_ok \in BOOLEAN :
          LET ids == select_relevant_articles(StoredTitles(store),
                                              MENTION_MAX_ARTICLES, sel_llm).value
          IN  (MentionHandled(m, sel_llm, llm_ok, db_ok) /\ store # <<>> /\ ids # <<>>)
                 => /\ ret'.path = "selected"
                    /\ llm_ok =>
                         {ret'.reply.articles[i].id : i \in DOMAIN ret'.reply.articles}
                            = Range(ids)]_vars

\* The handler h is entered with a number emoji for an article the selection
\* of the key shows.
NumberReaction(h, message_id, user, emoji) ==
    /\ ReactionAdded(h, message_id, user, emoji)
    /\ SelectionKey(Channel, message_id, user) \in DOMAIN pending_selections
    /\ emoji \in Range(number_emojis)
    /\ IndexOf(number_emojis, emoji)
          < Len(pending_selections[SelectionKey(Channel, message_id, user)].articles)

\* The indices selected under the key, before and after the step.
SelectedSet(key) == Range(pending_selections[key].selected_indices)
SelectedSetAfter(key) == Range(pending_selections'[key].selected_indices)

\* C23 as stated: a number-emoji reaction is idempotent: once it has been
\* applied, applying it again leaves the same set of selected indices.
C23_NumberReactionIdempotent ==
    [][\A h \in HandlerIds, u \in ReactingUsers, e \in ReactionEmojis :
          NumberReaction(h, 1, u, e)
             => Range(ToggleIndex(pending_selections'[SelectionKey(Channel, 1, u)]
                                     .selected_indices,
                                  IndexOf(number_emojis, e)))
                  = SelectedSetAfter(SelectionKey(Channel, 1, u))]_vars

\* C23 amended: a number-emoji reaction toggles its index and nothing else:
\* it selects the index when it was not selected and deselects it when it
\* was, so applying it twice gives back the set there was before the first;
\* the select-all reaction is the idempotent one.
C23_NumberReactionToggles ==
    [][\A h \in HandlerIds, u \in ReactingUsers, e \in ReactionEmojis :
          LET key == SelectionKey(Channel, 1, u)
              index == IndexOf(number_emojis, e)
          IN  /\ NumberReaction(h, 1, u, e)
                    => /\ SelectedSetAfter(key) =
                            IF index \in SelectedSet(key)
                            THEN SelectedSet(key) \ {index}
                            ELSE SelectedSet(key) \cup {index}
                       /\ Range(ToggleIndex(pending_selections'[key].selected_indices,
                                            index)) = SelectedSet(key)
              /\ (/\ ReactionAdded(h, 1, u, e)
                  /\ e = ALL_EMOJI
                  /\ key \in DOMAIN pending_selections)
                    => /\ SelectedSetAfter(key) =
                            0..(Len(pending_selections[key].articles) - 1)
                       /\ pending_selections'[key].selected_indices =
                            ListRange(Len(pending_selections[key].articles))]_vars

\* C23 witness: the reaction "1" has been handled on a selection that now has
\* nothing selected, so it has been applied twice to the empty selection the
\* command made.
C23_Witness ==
    /\ ret.op = "on_reaction_add"
    /\ ret.emoji = "1"
    /\ ret.outcome = "toggled"
    /\ ret.selection_key \in DOMAIN pending_selections
    /\ pending_selections[ret.selection_key].selected_indices = <<>>

\* C24: the final removal of the key by a confirmation is a no-op when the
\* key is gone: if the sweep or another confirmation removed it while the
\* handler was suspended, the handler's own removal raises nothing and the
\* handler goes on to its end as after a removal that found the key.
C24_RemovingAbsentKeyIsNoOp ==
    [][\A h \in HandlerIds :
          (/\ ResultShown(h, TRUE)
           /\ handlers[h].selection_key \notin DOMAIN pending_selections)
             => /\ handlers'[h].pc = "removing"
                /\ pending_selections' = pending_selections]_vars

\* ---------------------------------------------------------------------------
\* news_fetcher.py: NewsFetcher.fetch_from_rss
\* ---------------------------------------------------------------------------

\* What downloading and parsing the page of an entry gives: an exception, or
\* the text found (news_fetcher.py:91-95).
PageFails == [kind |-> "error"]
PageText(text) == [kind |-> "text", text |-> text]

\* news_fetcher.py:89-97: the summary of the feed, replaced by the text of the
\* page when that is longer.
FullTextOf(entry, page) ==
    LET full_text == DictGet(entry, "summary", <<>>)
    IN  IF page.kind = "text" /\ page.text # <<>> /\ Len(page.text) > Len(full_text)
        THEN page.text ELSE full_text

\* news_fetcher.py:81-114: the body of the loop for one entry: the article
\* appended, or the error that leaves the loop body.  An entry with no link
\* raises in Article(entry.link) and once more in the warning that names the
\* link (news_fetcher.py:96), so the error reaches the handler of line 112.
EntryOutcome(entry, page) ==
    IF "link" \notin DOMAIN entry THEN Raises("AttributeError")
    ELSE IF "title" \notin DOMAIN entry THEN Raises("AttributeError")
    ELSE Returns([title |-> entry.title,
                  url |-> entry.link,
                  source |-> extract_source_from_url(entry.link).value,
                  published_at |-> NoTime,
                  summary |-> DictGet(entry, "summary", <<>>),
                  full_text |-> FullTextOf(entry, page),
                  intent |-> NULL,
                  emotion |-> NULL])

\* news_fetcher.py:80-118: the loop over the entries.  An entry that raises is
\* logged and skipped (line 112-114); the log line names entry.link, so an
\* entry with no link raises again there and the handler of line 116 ends the
\* loop with the articles gathered so far.
RECURSIVE RssLoop(_, _, _)
RssLoop(entries, pages, articles) ==
    IF entries = <<>> THEN articles
    ELSE LET out == EntryOutcome(Head(entries), Head(pages))
         IN  IF out.raised = "none"
             THEN RssLoop(Tail(entries), Tail(pages), Append(articles, out.value))
             ELSE IF "link" \in DOMAIN Head(entries)
             THEN RssLoop(Tail(entries), Tail(pages), articles)
             ELSE articles

\* NewsFetcher.fetch_from_rss, given the entries feedparser found and what
\* the page of each gives.
fetch_from_rss(entries, pages) == RssLoop(entries, pages, <<>>)

\* ---------------------------------------------------------------------------
\* Feed specification: fetch_from_rss applied to short feeds.
\* ---------------------------------------------------------------------------

\* Bound: the entries of a feed.
MaxEntries == 2

EntryLinks == << <<"h","t","t","p","s",":","/","/","c","n","n",".","c","o","m","/","1">>,
                <<"h","t","t","p","s",":","/","/","b","b","c",".","c","o",".","u","k","/","2">>,
                <<"h","t","t","p","s",":","/","/","r","t",".","c","o","m","/","3">> >>

\* The entries at place k of a feed: with or without summary, title and link.
EntriesAt(k) ==
    { [title |-> T_Markets, link |-> EntryLinks[k], summary |-> T_Poll],
      [title |-> T_Markets, link |-> EntryLinks[k], summary |-> <<>>],
      [title |-> T_Markets, link |-> EntryLinks[k]],
      [link |-> EntryLinks[k], summary |-> T_Poll],
      [title |-> T_Markets, summary |-> T_Poll] }

PageOutcomes == { PageFails, PageText(<<>>), PageText(T_Election) }

FeedCalls ==
    UNION { { [fn |-> "fetch_from_rss", entries |-> e, pages |-> p] :
                e \in { f \in [1..n -> UNION { EntriesAt(k) : k \in 1..n }] :
                          \A k \in 1..n : f[k] \in EntriesAt(k) },
                p \in [1..n -> PageOutcomes] } :
            n \in 0..MaxEntries }

ApplyFetchFromRss ==
    /\ call.fn = "fetch_from_rss"
    /\ ret = NoRet
    /\ ret' = [op |-> "fetch_from_rss", raised |-> "none",
               value |-> fetch_from_rss(call.entries, call.pages)]
    /\ UNCHANGED <<dbVars, call, botVars, schedVars>>

FeedInit ==
    /\ store = <<>>
    /\ now = 0
    /\ call \in FeedCalls
    /\ ret = NoRet
    /\ BotAtStart
    /\ SchedulerAtStart

FeedNext == ApplyFetchFromRss

FeedSpec == FeedInit /\ [][FeedNext]_vars

\* The page of entry k gives no usable text: the download or the parse fails,
\* or the text found is empty.
NoUsableText(k) ==
    call.pages[k].kind = "error" \/ call.pages[k].text = <<>>

\* Entry k has the title and the link an article is built from.
HasTitleAndLink(k) == {"title", "link"} \subseteq DOMAIN call.entries[k]

\* C25: an entry whose full-page extraction yields no usable text is not
\* among the articles fetch_from_rss returns, and the other entries of the
\* feed are returned.
C25_EmptyExtractionIsDropped ==
    ret.op = "fetch_from_rss"
        => \A k \in DOMAIN call.entries :
              HasTitleAndLink(k)
                 => (NoUsableText(k)
                       <=> ~\E i \in DOMAIN ret.value :
                              ret.value[i].url = call.entries[k].link)

\* selected_indices has no index twice.
NoDuplicates(s) == \A i, j \in DOMAIN s : s[i] = s[j] => i = j

\* C26: in every state, the selected_indices of every pending selection hold
\* no index twice and only indices of displayed articles, 0 <= i < the number
\* of displayed articles, and at most NEWS_DISPLAY_MAX articles are displayed.
C26_SelectedIndicesWellFormed ==
    \A key \in DOMAIN pending_selections :
        LET selection_data == pending_selections[key]
        IN  /\ Len(selection_data.articles) <= NEWS_DISPLAY_MAX
            /\ NoDuplicates(selection_data.selected_indices)
            /\ \A i \in Range(selection_data.selected_indices) :
                  0 <= i /\ i < Len(selection_data.articles)

\* Every displayed article is selected, and a number reaction beyond the
\* displayed articles has been handled since: it added no index.
C26_Witness ==
    /\ ret.op = "on_reaction_add"
    /\ ret.emoji = "3"
    /\ ret.selection_key \in DOMAIN pending_selections
    /\ Len(pending_selections[ret.selection_key].articles) = 2
    /\ Len(pending_selections[ret.selection_key].selected_indices) = 2

\* ---------------------------------------------------------------------------
\* Double-confirm specification: the owner of one selection message selects
\* and confirms, and a reaction may arrive while the handler of an earlier
\* one is suspended at an awaited call.
\* ---------------------------------------------------------------------------

\* The on_reaction_add coroutines that can be under way at once: one more
\* than in the Confirm specification.
ConcurrentHandlers == 1..(MaxHandlers + 1)

OwnerEmojis == {CONFIRM_EMOJI, "1"}

DoubleConfirmInit ==
    /\ store = SweepStore
    /\ now = 0
    /\ call = NoCall
    /\ ret = NoRet
    /\ pending_selections = EmptyDict
    /\ next_message_id = 1
    /\ next_sweep = 0
    /\ handlers = [h \in ConcurrentHandlers |-> IdleHandler]
    /\ SchedulerAtStart

DoubleConfirmNext ==
    \/ \E u \in SweepUsers : next_message_id = 1 /\ fetch_news(u, None)
    \/ \E h \in ConcurrentHandlers, u \in SweepUsers, e \in OwnerEmojis :
          ReactionAdded(h, 1, u, e)
    \/ \E h \in ConcurrentHandlers, ok \in BOOLEAN : NoticeShown(h, ok)
    \/ \E h \in ConcurrentHandlers, ok \in BOOLEAN : ReactionsCleared(h, ok)
    \/ \E h \in ConcurrentHandlers, ok \in BOOLEAN : AnalyzingShown(h, ok)
    \/ \E h \in ConcurrentHandlers, ok \in BOOLEAN : ResultShown(h, ok)
    \/ \E h \in ConcurrentHandlers, ok \in BOOLEAN : DisplayShown(h, ok)
    \/ \E h \in ConcurrentHandlers : ReactionRemoved(h)

DoubleConfirmSpec == DoubleConfirmInit /\ [][DoubleConfirmNext]_vars

\* The handler h has run the skeptical analysis of the selection under the
\* key (bot.py:258-274) and has not yet finished.
HasAnalyzed(h, key) ==
    /\ handlers[h].emoji = CONFIRM_EMOJI
    /\ handlers[h].selection_key = key
    /\ handlers[h].pc = "result"

\* C27: the skeptical analysis of a pending selection is run at most once:
\* a confirmation that arrives while the handler of an earlier confirmation
\* of the same selection is suspended starts no second analysis, so no two
\* handlers have both run the analysis of one selection.
C27_AnalysisRunsAtMostOnce ==
    \A g, h \in DOMAIN handlers :
        (HasAnalyzed(g, handlers[g].selection_key)
            /\ HasAnalyzed(h, handlers[g].selection_key))
          => g = h

\* ---------------------------------------------------------------------------
\* Tier specification: the selection of the fetcher and the selection of the
\* scheduler, each applied to the same article list.
\* ---------------------------------------------------------------------------

ApplyBothSelections ==
    /\ call.fn = "both selections"
    /\ ret = NoRet
    /\ \E prioritized_articles \in prioritize_us_sources(call.all_articles) :
          ret' = [op |-> "both selections",
                  prioritized_articles |-> prioritized_articles,
                  selected_articles |->
                      select_balanced_articles_per_source(call.all_articles)]
    /\ UNCHANGED <<dbVars, call, botVars, schedVars>>

TierInit ==
    /\ store = <<>>
    /\ now = 0
    /\ call \in { [fn |-> "both selections", all_articles |-> l] : l \in SelectInputs }
    /\ ret = NoRet
    /\ BotAtStart
    /\ SchedulerAtStart

TierNext == ApplyBothSelections

TierSpec == TierInit /\ [][TierNext]_vars

\* C28: the two tiered selections agree on every article list: every source
\* is of the same tier for NewsFetcher._prioritize_us_sources as for
\* NewsScheduler._select_balanced_articles_per_source, and both select the
\* same number of articles of every source.
C28_TieredSelectionsAgree ==
    ret.op = "both selections"
        => \A s \in {SourceOf(call.all_articles[i]) : i \in DOMAIN call.all_articles} :
              /\ s \in fetcher_us_sources <=> s \in scheduler_us_sources
              /\ CountOfSource(ret.prioritized_articles, s)
                    = CountOfSource(ret.selected_articles, s)

\* The cycle that takes the step: the coroutine that holds the loop.
StepOfCycle(force) ==
    /\ running # NoTask
    /\ tasks[running].pc \notin {"idle", "done"}
    /\ tasks[running].force = force

\* NewsScheduler.get_last_fetch_info()['next_auto_fetch'] (scheduler.py:207):
\* the time from which the guard lets an automatic cycle through.
next_auto_fetch(stamp) ==
    IF stamp = NoTime THEN NoTime ELSE stamp + IntervalSeconds

\* C29: no step of a manual (forced) cycle changes last_auto_fetch and no
\* step of an automatic cycle changes last_manual_fetch; the stamp of a
\* manual cycle sets last_manual_fetch and the stamp of an automatic cycle
\* sets last_auto_fetch, so the time from which the guard allows the next
\* automatic fetch is the same before and after every step of a manual
\* cycle, and the guard's verdict on an automatic cycle does not depend on
\* last_manual_fetch.
C29_StampsAreSeparate ==
    [][/\ StepOfCycle(TRUE)
            => /\ last_auto_fetch' = last_auto_fetch
               /\ next_auto_fetch(last_auto_fetch') = next_auto_fetch(last_auto_fetch)
       /\ StepOfCycle(FALSE) => last_manual_fetch' = last_manual_fetch
       /\ \A t \in TaskIds :
             Stamp(t) => IF tasks[t].force
                         THEN last_manual_fetch' = now
                         ELSE last_auto_fetch' = now
       /\ last_auto_fetch' # last_auto_fetch
             => \E t \in TaskIds : Stamp(t) /\ ~tasks[t].force
       /\ last_manual_fetch' # last_manual_fetch
             => \E t \in TaskIds : Stamp(t) /\ tasks[t].force]_vars

\* An automatic cycle has stamped, then a manual cycle has stamped at a later
\* time, and the automatic stamp is still the earlier one.
C29_Witness ==
    /\ last_auto_fetch # NoTime
    /\ last_manual_fetch # NoTime
    /\ last_manual_fetch > last_auto_fetch

\* ---------------------------------------------------------------------------
\* The Timer specification with its scheduling: time goes on, a due job is
\* handled by the scheduler, and a coroutine that is ready is run by the
\* event loop.
\* ---------------------------------------------------------------------------

TimerFairSpec ==
    /\ TimerInit
    /\ [][TimerNext]_vars
    /\ WF_vars(IntervalTick)
    /\ WF_vars(TimerFires)
    /\ WF_vars(RunJob)

\* start_scheduler has run at time 0 and skipped the startup fetch: the
\* newest stored article was less than STARTUP_WINDOW_HOURS old, and the job
\* was added with next_run_time=None (scheduler.py:163-176).
StartupFetchSkipped ==
    /\ apscheduler.running
    /\ apscheduler.next_run_time = NoTime
    /\ now = 0

\* The job's coroutine has been started by the scheduler: an automatic
\* fetch cycle runs.
AutomaticCycleRuns == tasks[JobTask].pc # "idle"

\* C30: after start_scheduler an automatic fetch cycle eventually runs: when
\* the startup fetch was skipped because the newest stored article is less
\* than 6 hours old, the job still fires an interval later and runs a cycle.
C30_SkippedStartupStillFetches == StartupFetchSkipped ~> AutomaticCycleRuns

\* A job added with next_run_time=None never runs, however long the clock
\* goes on.
PausedJobNeverRuns ==
    (apscheduler.running /\ apscheduler.next_run_time = NoTime)
        => tasks[JobTask].pc = "idle"

====
